---- MODULE Spec2Model ----
(***************************************************************************)
(* Model of crates/intl-lens/src/backend.rs: the I18nBackend session       *)
(* state (config, documents, translation_store, key_finder,                *)
(* workspace_root and the four capability flags, each behind its own       *)
(* tokio RwLock), the LanguageServer handlers that read and write it, and  *)
(* the pure helpers the handlers call.                                     *)
(*                                                                         *)
(* Strings are TLA+ strings.  Option<T> is a sequence of length <= 1:      *)
(* None is << >>, Some(v) is <<v>>.                                        *)
(***************************************************************************)
EXTENDS Integers, Sequences, FiniteSets, TLC

VARIABLES
    config,             \* I18nBackend.config
    documents,          \* I18nBackend.documents (uri -> OpenDocument)
    translation_store,  \* I18nBackend.translation_store : Option<TranslationStore>
    key_finder,         \* I18nBackend.key_finder
    workspace_root,     \* I18nBackend.workspace_root : Option<PathBuf>
    caps,               \* the four *_supported flags
    disk,               \* the locale files on disk: locale -> (key -> value)
    rheld,              \* handler -> slots whose read guard it holds
    wheld,              \* handler -> slots whose write guard it holds
    pc,                 \* handler -> position in its handler
    req,                \* handler -> the request it serves (kind and params)
    loc,                \* handler -> its local variables
    out,                \* handler -> its outbound client calls, its catalog
                        \* publications and its file writes, in order
    init_seen,          \* the client has sent its initialize request
    pin,                \* input of a pure function applied on its own
    pout                \* Option<result> of that pure function

vars == <<config, documents, translation_store, key_finder, workspace_root,
          caps, disk, rheld, wheld, pc, req, loc, out, init_seen, pin, pout>>

sessionVars == <<config, documents, translation_store, key_finder,
                 workspace_root, caps, disk, rheld, wheld, pc, req, loc, out,
                 init_seen>>

----------------------------------------------------------------------------
(* Bounds *)

\* number of worker tasks that serve requests at the same time
NumHandlers == 2

\* largest number of key usages in one document text
MaxUsages == 2

----------------------------------------------------------------------------
(* Data *)

None == << >>
Some(v) == <<v>>
IsSome(o) == Len(o) = 1
Unwrap(o) == o[1]

Keys == {"hello", "bye"}
Locales == {"en", "fr"}

\* lexicographic order of the locale codes used here ("de" is held only by
\* the catalogs that compute_diagnostics is applied to on its own)
LocaleOrder == <<"de", "en", "fr">>

\* translation values: "_" and "__" are the short underscore-only values
Values == {"Hi", "_", "__", "_hello_", "_bye_"}

StartsWith(s, p) == Len(s) >= Len(p) /\ SubSeq(s, 1, Len(p)) = p
EndsWith(s, p) == Len(s) >= Len(p) /\ SubSeq(s, Len(s) - Len(p) + 1, Len(s)) = p

\* trim_end_matches(['/', '\\']), lines 429 and 514
RECURSIVE TrimEndSlashes(_)
TrimEndSlashes(p) ==
    IF EndsWith(p, "/") \/ EndsWith(p, "\\")
    THEN TrimEndSlashes(SubSeq(p, 1, Len(p) - 1))
    ELSE p

----------------------------------------------------------------------------
(* TranslationStore (crate::i18n): tr maps each loaded locale to the       *)
(* key -> value map of its files.                                          *)

key_exists(store, key) == \E l \in DOMAIN store.tr : key \in DOMAIN store.tr[l]

get_translation(store, key, locale) ==
    IF locale \in DOMAIN store.tr /\ key \in DOMAIN store.tr[locale]
    THEN Some(store.tr[locale][key])
    ELSE None

get_locales(store) == DOMAIN store.tr

get_all_keys(store) == UNION {DOMAIN store.tr[l] : l \in DOMAIN store.tr}

\* the loaded locales that lack the key, in lexicographic order
get_missing_locales(store, key) ==
    SelectSeq(LocaleOrder,
              LAMBDA l : l \in DOMAIN store.tr /\ key \notin DOMAIN store.tr[l])

\* the parsed view of a locale file whose text is not a JSON object
NotAnObject == [k \in {"[]"} |-> "[]"]

\* TranslationStore::new(root) followed by scan_and_load(locale_paths): the
\* files under the locale path lang that parse as objects, by locale
scan_and_load(root, locale_paths, files) ==
    [root |-> root,
     tr   |-> IF \E i \in 1..Len(locale_paths) : locale_paths[i] = "lang"
              THEN [l \in {m \in DOMAIN files : files[m] # NotAnObject} |-> files[l]]
              ELSE [l \in {} |-> files]]

----------------------------------------------------------------------------
(* KeyFinder (crate::i18n).  A document text is a sequence of call sites,  *)
(* one per line: [fn |-> "t", key |-> "hello"] stands for  t("hello").     *)

KeyFinderNew(function_patterns) == [patterns |-> function_patterns]

FoundKey(content, i) ==
    [key        |-> content[i].key,
     line       |-> i - 1,
     start_char |-> Len(content[i].fn) + 2,
     end_char   |-> Len(content[i].fn) + 2 + Len(content[i].key)]

UsageIndexes(kf, content) ==
    SelectSeq([i \in 1..Len(content) |-> i],
              LAMBDA i : content[i].fn \in kf.patterns)

find_keys(kf, content) ==
    LET idx == UsageIndexes(kf, content)
    IN  [j \in 1..Len(idx) |-> FoundKey(content, idx[j])]

----------------------------------------------------------------------------
(* compute_diagnostics, lines 247-335 *)

UsageRange(found_key) ==
    [start |-> [line |-> found_key.line, character |-> found_key.start_char],
     end   |-> [line |-> found_key.line, character |-> found_key.end_char]]

MissingDiagnostic(found_key) ==
    [range    |-> UsageRange(found_key),
     severity |-> "WARNING",
     code     |-> "missing-translation",
     source   |-> "i18n",
     message  |-> "Translation key '" \o found_key.key \o "' not found"]

RawDiagnostic(found_key) ==
    [range    |-> UsageRange(found_key),
     severity |-> "WARNING",
     code     |-> "raw-translation",
     source   |-> "i18n",
     message  |-> "Translation '" \o found_key.key
                  \o "' has a raw placeholder value - use Go to Definition to edit"]

RECURSIVE JoinNoSeparator(_)
JoinNoSeparator(s) ==
    IF Len(s) = 0 THEN "" ELSE s[1] \o JoinNoSeparator(Tail(s))

\* missing_locales.join(", "), line 326
RECURSIVE JoinComma(_)
JoinComma(s) ==
    IF Len(s) = 0 THEN ""
    ELSE IF Len(s) = 1 THEN s[1]
    ELSE s[1] \o ", " \o JoinComma(Tail(s))

IncompleteDiagnostic(found_key, missing_locales) ==
    [range    |-> UsageRange(found_key),
     severity |-> "HINT",
     code     |-> "incomplete-translation",
     source   |-> "i18n",
     message  |-> "Translation '" \o found_key.key \o "' missing in: "
                  \o JoinComma(missing_locales)]

\* line 282: value.starts_with('_') && value.ends_with('_') && value.len() > 2
IsRawPlaceholderLoose(value) ==
    StartsWith(value, "_") /\ EndsWith(value, "_") /\ Len(value) >= 2

IsRawPlaceholder(value) ==
    StartsWith(value, "_") /\ EndsWith(value, "_") /\ Len(value) > 2

\* the body of the loop of lines 260-332 for a key the store lacks
MissingBranchSilent(found_key) == << >>

MissingBranch(found_key) == <<MissingDiagnostic(found_key)>>

\* one iteration of the loop of lines 260-332: the diagnostics it pushes
DiagnoseUsage(store, source_locale, found_key) ==
    IF ~key_exists(store, found_key.key)
    THEN MissingBranch(found_key)
    ELSE LET value == get_translation(store, found_key.key, source_locale)
             missing_locales == get_missing_locales(store, found_key.key)
         IN  IF IsSome(value) /\ IsRawPlaceholder(Unwrap(value))
             THEN <<RawDiagnostic(found_key)>>
             ELSE IF Len(missing_locales) > 0
                  THEN <<IncompleteDiagnostic(found_key, missing_locales)>>
                  ELSE << >>

RECURSIVE DiagnoseAll(_, _, _)
DiagnoseAll(store, source_locale, found_keys) ==
    IF Len(found_keys) = 0 THEN << >>
    ELSE DiagnoseUsage(store, source_locale, Head(found_keys))
         \o DiagnoseAll(store, source_locale, Tail(found_keys))

\* compute_diagnostics as a function of what it reads
compute_diagnostics(kf, store_opt, source_locale, content) ==
    IF ~IsSome(store_opt) THEN << >>
    ELSE DiagnoseAll(Unwrap(store_opt), source_locale, find_keys(kf, content))

----------------------------------------------------------------------------
(* Session data *)

\* task 0 serves the initialize request, the others serve what follows
Handlers == 0..NumHandlers

Slots == {"config", "documents", "translation_store", "key_finder",
          "workspace_root", "inlay_hint_dynamic_registration_supported",
          "inlay_hint_refresh_supported",
          "watched_files_dynamic_registration_supported",
          "watched_files_relative_pattern_supported"}

\* paths are sequences of components
WorkspaceRoot == <<"ws">>
SrcUriA == <<"ws", "src", "a.ts">>
SrcUriB == <<"ws", "src", "b.ts">>
DocUris == {SrcUriA, SrcUriB}
\* extension of a locale's file, line 1047: the de file is de.yaml
FileExtension(l) == IF l = "de" THEN "yaml" ELSE "json"

LocaleFilePath(l) == <<"ws", "lang", l \o "." \o FileExtension(l)>>
LocaleUri == LocaleFilePath("en")

\* I18nConfig::default() (crate::config)
DefaultConfig ==
    [locale_paths |-> <<"locales">>, source_locale |-> "en",
     function_patterns |-> {"t"}]

\* two more workspaces: one whose project config lists no locale path and
\* one whose only locale path is "/"
BareRoot == <<"bare">>
SlashRoot == <<"odd">>

\* the roots the initialize request of a session names, and all of them
SessionRoots == {None, Some(WorkspaceRoot)}
AllRoots == SessionRoots \cup {Some(BareRoot), Some(SlashRoot)}

\* I18nConfig::load_from_workspace(root) for the workspaces on disk
load_from_workspace(root) ==
    IF root = BareRoot
    THEN [locale_paths |-> << >>, source_locale |-> "en", function_patterns |-> {"t"}]
    ELSE IF root = SlashRoot
    THEN [locale_paths |-> <<"/">>, source_locale |-> "en", function_patterns |-> {"t"}]
    ELSE [locale_paths |-> <<"lang">>, source_locale |-> "fr",
          function_patterns |-> {"t", "$t"}]

\* document texts the client sends
TextOne == <<[fn |-> "t", key |-> "hello"]>>
TextTwo == <<[fn |-> "$t", key |-> "bye"], [fn |-> "t", key |-> "bye"]>>
SessionTexts == {TextOne, TextTwo}


\* ClientCapabilities as far as initialize reads them: every level is an
\* Option, down to the Option<bool> fields
Opt(S) == {None} \cup {Some(x) : x \in S}

AllClientCaps ==
    [text_document : Opt([inlay_hint : Opt([dynamic_registration : Opt(BOOLEAN)])]),
     workspace : Opt([inlay_hint : Opt([refresh_support : Opt(BOOLEAN)]),
                      did_change_watched_files :
                          Opt([dynamic_registration : Opt(BOOLEAN),
                               relative_pattern_support : Opt(BOOLEAN)])])]

\* a client that declares nothing and one that declares every field true
ClientCaps ==
    {[text_document |-> None, workspace |-> None],
     [text_document |-> Some([inlay_hint |-> Some([dynamic_registration |-> Some(TRUE)])]),
      workspace |-> Some([inlay_hint |-> Some([refresh_support |-> Some(TRUE)]),
                          did_change_watched_files |->
                              Some([dynamic_registration |-> Some(TRUE),
                                    relative_pattern_support |-> Some(TRUE)])])]}

\* Option::and_then and Option::unwrap_or
AndThen(o, f(_)) == IF IsSome(o) THEN f(Unwrap(o)) ELSE None
UnwrapOr(o, default) == IF IsSome(o) THEN Unwrap(o) ELSE default

\* lines 665-671
inlay_hint_dynamic_registration_support(capabilities) ==
    UnwrapOr(AndThen(AndThen(capabilities.text_document,
                             LAMBDA text_document : text_document.inlay_hint),
                     LAMBDA inlay : inlay.dynamic_registration), FALSE)

\* lines 676-682
inlay_hint_refresh_supported(capabilities) ==
    UnwrapOr(AndThen(AndThen(capabilities.workspace,
                             LAMBDA workspace : workspace.inlay_hint),
                     LAMBDA inlay : inlay.refresh_support), FALSE)

\* lines 686-690
watched_files(capabilities) ==
    AndThen(capabilities.workspace,
            LAMBDA workspace : workspace.did_change_watched_files)

\* lines 692-694
watched_files_dynamic_registration_support(capabilities) ==
    UnwrapOr(AndThen(watched_files(capabilities),
                     LAMBDA watch : watch.dynamic_registration), FALSE)

\* as lines 696-698, but an absent field counts as declared
RelativePatternAssumed(capabilities) ==
    UnwrapOr(AndThen(watched_files(capabilities),
                     LAMBDA watch : watch.relative_pattern_support), TRUE)

\* lines 696-698
watched_files_relative_pattern_support(capabilities) ==
    UnwrapOr(AndThen(watched_files(capabilities),
                     LAMBDA watch : watch.relative_pattern_support), FALSE)

NoCaps ==
    [inlay_dyn |-> FALSE, inlay_refresh |-> FALSE,
     watch_dyn |-> FALSE, watch_rel |-> FALSE]

\* the locale files when the server starts
InitialDisk ==
    [l \in Locales |->
        IF l = "en" THEN [k \in {"hello"} |-> "Hi"] ELSE [k \in {} |-> "Hi"]]

NoReq == [kind |-> "none"]

NoLoc == [content |-> << >>, uri |-> << >>, kf |-> None, store |-> None,
          source_locale |-> "", found_keys |-> << >>, i |-> 0,
          diagnostics |-> << >>, ret |-> "done",
          root |-> None, locale_paths |-> << >>, new_store |-> None,
          config |-> None, changes |-> 0, entries |-> << >>, e |-> 0,
          files |-> << >>, f |-> 0, file_content |-> None, files_written |-> 0,
          prefix |-> "", result |-> None]

----------------------------------------------------------------------------
(* tokio::sync::RwLock: a write guard excludes every other guard, read     *)
(* guards exclude only a write guard.                                      *)

CanRead(slot) == \A g \in Handlers : slot \notin wheld[g]

CanWrite(slot) == \A g \in Handlers : slot \notin wheld[g] /\ slot \notin rheld[g]

Goto(h, label) == pc' = [pc EXCEPT ![h] = label]

SetLoc(h, r) == loc' = [loc EXCEPT ![h] = r]

Emit(h, e) == out' = [out EXCEPT ![h] = Append(@, e)]

\* I18nBackend::new, lines 38-51
SessionInit ==
    /\ config = DefaultConfig
    /\ documents = [u \in {} |-> 0]
    /\ translation_store = None
    /\ key_finder = KeyFinderNew(DefaultConfig.function_patterns)
    /\ workspace_root = None
    /\ caps = NoCaps
    /\ disk = InitialDisk
    /\ rheld = [h \in Handlers |-> {}]
    /\ wheld = [h \in Handlers |-> {}]
    /\ pc = [h \in Handlers |-> "idle"]
    /\ req = [h \in Handlers |-> NoReq]
    /\ loc = [h \in Handlers |-> NoLoc]
    /\ out = [h \in Handlers |-> << >>]
    /\ init_seen = FALSE

Shared == <<config, documents, translation_store, key_finder, workspace_root,
            caps, disk>>

Locks == <<rheld, wheld>>

\* the handler returns: every guard it still holds is dropped
Return(h) ==
    /\ Goto(h, "done")
    /\ rheld' = [rheld EXCEPT ![h] = {}]
    /\ wheld' = [wheld EXCEPT ![h] = {}]

----------------------------------------------------------------------------
(* initialize, lines 661-789, and initialize_workspace, lines 53-86 *)

StartInitialize(h, client_caps, roots) ==
    /\ pc[h] = "idle"
    /\ ~init_seen
    /\ init_seen' = TRUE
    /\ \E c \in client_caps, r \in roots :
           req' = [req EXCEPT ![h] = [kind |-> "initialize", caps |-> c, root_path |-> r]]
    /\ Goto(h, "init_inlay_dyn")
    /\ UNCHANGED <<Shared, Locks, loc, out, pin, pout>>

\* lines 673-674
InitInlayDyn(h) ==
    /\ pc[h] = "init_inlay_dyn"
    /\ CanWrite("inlay_hint_dynamic_registration_supported")
    /\ caps' = [caps EXCEPT !.inlay_dyn =
                  inlay_hint_dynamic_registration_support(req[h].caps)]
    /\ Goto(h, "init_inlay_refresh")
    /\ UNCHANGED <<config, documents, translation_store, key_finder,
                   workspace_root, disk, Locks, req, loc, out, init_seen, pin, pout>>

\* line 684
InitInlayRefresh(h) ==
    /\ pc[h] = "init_inlay_refresh"
    /\ CanWrite("inlay_hint_refresh_supported")
    /\ caps' = [caps EXCEPT !.inlay_refresh = inlay_hint_refresh_supported(req[h].caps)]
    /\ Goto(h, "init_watch_dyn")
    /\ UNCHANGED <<config, documents, translation_store, key_finder,
                   workspace_root, disk, Locks, req, loc, out, init_seen, pin, pout>>

\* lines 700-703
InitWatchDyn(h) ==
    /\ pc[h] = "init_watch_dyn"
    /\ CanWrite("watched_files_dynamic_registration_supported")
    /\ caps' = [caps EXCEPT !.watch_dyn =
                  watched_files_dynamic_registration_support(req[h].caps)]
    /\ Goto(h, "init_watch_rel")
    /\ UNCHANGED <<config, documents, translation_store, key_finder,
                   workspace_root, disk, Locks, req, loc, out, init_seen, pin, pout>>

\* lines 704-740: the last flag, then the workspace root of the params
InitWatchRel(h) ==
    /\ pc[h] = "init_watch_rel"
    /\ CanWrite("watched_files_relative_pattern_supported")
    /\ caps' = [caps EXCEPT !.watch_rel =
                  watched_files_relative_pattern_support(req[h].caps)]
    /\ IF IsSome(req[h].root_path)
       THEN Goto(h, "iw_key_finder") /\ UNCHANGED Locks
       ELSE Return(h)
    /\ UNCHANGED <<config, documents, translation_store, key_finder,
                   workspace_root, disk, req, loc, out, init_seen, pin, pout>>

\* lines 56-60: load the config, build the key finder and store it
InitWorkspaceKeyFinder(h) ==
    /\ pc[h] = "iw_key_finder"
    /\ CanWrite("key_finder")
    /\ LET cfg == load_from_workspace(Unwrap(req[h].root_path))
       IN  /\ key_finder' = KeyFinderNew(cfg.function_patterns)
           /\ SetLoc(h, [loc[h] EXCEPT !.config = Some(cfg)])
    /\ Goto(h, "iw_scan")
    /\ UNCHANGED <<config, documents, translation_store, workspace_root, caps,
                   disk, Locks, req, out, init_seen, pin, pout>>

\* lines 62-66
InitWorkspaceScan(h) ==
    /\ pc[h] = "iw_scan"
    /\ SetLoc(h, [loc[h] EXCEPT !.new_store =
           Some(scan_and_load(Unwrap(req[h].root_path),
                              Unwrap(loc[h].config).locale_paths, disk))])
    /\ Goto(h, "iw_log")
    /\ UNCHANGED <<Shared, Locks, req, out, init_seen, pin, pout>>

\* lines 71-81
InitWorkspaceLog(h) ==
    /\ pc[h] = "iw_log"
    /\ Emit(h, [call |-> "log_message"])
    /\ Goto(h, "iw_store")
    /\ UNCHANGED <<Shared, Locks, req, loc, init_seen, pin, pout>>

\* line 83
InitWorkspaceStore(h) ==
    /\ pc[h] = "iw_store"
    /\ CanWrite("translation_store")
    /\ translation_store' = loc[h].new_store
    /\ Goto(h, "iw_config")
    /\ UNCHANGED <<config, documents, key_finder, workspace_root, caps, disk,
                   Locks, req, loc, out, init_seen, pin, pout>>

\* line 84
InitWorkspaceConfig(h) ==
    /\ pc[h] = "iw_config"
    /\ CanWrite("config")
    /\ config' = Unwrap(loc[h].config)
    /\ Goto(h, "iw_root")
    /\ UNCHANGED <<documents, translation_store, key_finder, workspace_root,
                   caps, disk, Locks, req, loc, out, init_seen, pin, pout>>

\* line 85, and the return of initialize
InitWorkspaceRoot(h) ==
    /\ pc[h] = "iw_root"
    /\ CanWrite("workspace_root")
    /\ workspace_root' = req[h].root_path
    /\ Return(h)
    /\ UNCHANGED <<config, documents, translation_store, key_finder, caps,
                   disk, req, loc, out, init_seen, pin, pout>>

----------------------------------------------------------------------------
(* DocumentStore (crate::document) *)

DocOpen(docs, uri, content, version) ==
    [u \in DOMAIN docs \cup {uri} |->
        IF u = uri THEN [content |-> content, version |-> version] ELSE docs[u]]

DocUpdate(docs, uri, content, version) == DocOpen(docs, uri, content, version)

DocClose(docs, uri) == [u \in DOMAIN docs \ {uri} |-> docs[u]]

DocGet(docs, uri) == IF uri \in DOMAIN docs THEN Some(docs[uri]) ELSE None

----------------------------------------------------------------------------
(* diagnose_document, lines 239-245, with compute_diagnostics, 247-335 *)

\* enter diagnose_document(uri, content); ret is where its caller goes on
CallDiagnose(h, uri, content, ret) ==
    /\ Goto(h, "cd_key_finder")
    /\ SetLoc(h, [loc[h] EXCEPT !.uri = uri, !.content = content, !.ret = ret,
                                !.kf = None, !.store = None, !.found_keys = << >>,
                                !.i = 0, !.diagnostics = << >>])

\* lines 248-249: the key_finder read guard is kept until the function returns
ComputeKeyFinder(h) ==
    /\ pc[h] = "cd_key_finder"
    /\ CanRead("key_finder")
    /\ rheld' = [rheld EXCEPT ![h] = @ \cup {"key_finder"}]
    /\ SetLoc(h, [loc[h] EXCEPT !.kf = Some(key_finder),
                                !.found_keys = find_keys(key_finder, loc[h].content)])
    /\ Goto(h, "cd_store")
    /\ UNCHANGED <<Shared, wheld, req, out, init_seen, pin, pout>>

\* the guards a handler holds once it has taken the translation_store guard
StoreGuardDropped(held) == held

StoreGuardKept(held) == held \cup {"translation_store"}

\* as ComputeStore, but with no store every found key is reported missing
ComputeStoreAllMissing(h) ==
    /\ pc[h] = "cd_store"
    /\ CanRead("translation_store")
    /\ IF IsSome(translation_store)
       THEN /\ rheld' = [rheld EXCEPT ![h] = StoreGuardKept(@)]
            /\ SetLoc(h, [loc[h] EXCEPT !.store = translation_store])
            /\ Goto(h, "cd_config")
       ELSE /\ rheld' = [rheld EXCEPT ![h] = {}]
            /\ SetLoc(h, [loc[h] EXCEPT !.diagnostics =
                   [j \in 1..Len(loc[h].found_keys) |->
                       MissingDiagnostic(loc[h].found_keys[j])]])
            /\ Goto(h, "dd_publish")
    /\ UNCHANGED <<Shared, wheld, req, out, init_seen, pin, pout>>

\* lines 251-255: no store, return vec![]; else keep the read guard
ComputeStore(h) ==
    /\ pc[h] = "cd_store"
    /\ CanRead("translation_store")
    /\ IF IsSome(translation_store)
       THEN /\ rheld' = [rheld EXCEPT ![h] = StoreGuardKept(@)]
            /\ SetLoc(h, [loc[h] EXCEPT !.store = translation_store])
            /\ Goto(h, "cd_config")
       ELSE /\ rheld' = [rheld EXCEPT ![h] = {}]
            /\ SetLoc(h, [loc[h] EXCEPT !.diagnostics = << >>])
            /\ Goto(h, "dd_publish")
    /\ UNCHANGED <<Shared, wheld, req, out, init_seen, pin, pout>>

\* line 258; with no usage to look at the function returns at once
ComputeConfig(h) ==
    /\ pc[h] = "cd_config"
    /\ CanRead("config")
    /\ SetLoc(h, [loc[h] EXCEPT !.source_locale = config.source_locale, !.i = 1])
    /\ IF Len(loc[h].found_keys) = 0
       THEN Goto(h, "dd_publish") /\ rheld' = [rheld EXCEPT ![h] = {}]
       ELSE Goto(h, "cd_loop") /\ UNCHANGED rheld
    /\ UNCHANGED <<Shared, wheld, req, out, init_seen, pin, pout>>

\* lines 260-334: one iteration, reading the store behind the guard; after
\* the last one the function returns and drops its guards
ComputeLoop(h) ==
    /\ pc[h] = "cd_loop"
    /\ LET i == loc[h].i
           pushed == DiagnoseUsage(Unwrap(translation_store), loc[h].source_locale,
                                   loc[h].found_keys[i])
       IN  /\ SetLoc(h, [loc[h] EXCEPT !.diagnostics = @ \o pushed, !.i = i + 1])
           /\ IF i = Len(loc[h].found_keys)
              THEN Goto(h, "dd_publish") /\ rheld' = [rheld EXCEPT ![h] = {}]
              ELSE UNCHANGED <<pc, rheld>>
    /\ UNCHANGED <<Shared, wheld, req, out, init_seen, pin, pout>>

\* lines 242-244
DiagnosePublish(h) ==
    /\ pc[h] = "dd_publish"
    /\ Emit(h, [call |-> "publish_diagnostics", uri |-> loc[h].uri,
                diagnostics |-> loc[h].diagnostics])
    /\ Goto(h, loc[h].ret)
    /\ UNCHANGED <<Shared, Locks, req, loc, init_seen, pin, pout>>

----------------------------------------------------------------------------
(* did_open, lines 818-829; did_change, 831-845; did_close, 854-857 *)

StartDidOpen(h, uris, texts, versions) ==
    /\ pc[h] = "idle"
    /\ \E u \in uris, t \in texts, v \in versions :
           req' = [req EXCEPT ![h] = [kind |-> "did_open", uri |-> u, text |-> t,
                                      version |-> v]]
    /\ Goto(h, "do_write")
    /\ UNCHANGED <<Shared, Locks, loc, out, init_seen, pin, pout>>

\* lines 823-825: inside the block, holding the write guard
DidOpenWrite(h) ==
    /\ pc[h] = "do_write"
    /\ CanWrite("documents")
    /\ documents' = DocOpen(documents, req[h].uri, req[h].text, req[h].version)
    /\ wheld' = [wheld EXCEPT ![h] = @ \cup {"documents"}]
    /\ Goto(h, "do_diagnose")
    /\ UNCHANGED <<config, translation_store, key_finder, workspace_root, caps,
                   disk, rheld, req, loc, out, init_seen, pin, pout>>

\* the write guards left when the block of lines 823-826 / 838-841 ends
BlockEndKeepsGuard(held) == held

BlockEnd(held) == held \ {"documents"}

\* the content handed to diagnose_document, line 828
DidOpenContent(h) == req[h].text

\* lines 826-828: the block ends, diagnose_document is entered
DidOpenDiagnose(h) ==
    /\ pc[h] = "do_diagnose"
    /\ wheld' = [wheld EXCEPT ![h] = BlockEnd(@)]
    /\ CallDiagnose(h, req[h].uri, DidOpenContent(h), "done")
    /\ UNCHANGED <<Shared, rheld, req, out, init_seen, pin, pout>>

ChangeLists == {<< >>, <<TextOne>>, <<TextOne, TextTwo>>}

\* as LastChange, but the first content change is taken
FirstChange(changes) ==
    IF Len(changes) = 0 THEN None ELSE Some(changes[1])

\* line 834: the last content change, if any
LastChange(changes) ==
    IF Len(changes) = 0 THEN None ELSE Some(changes[Len(changes)])

StartDidChange(h, uris, lists, versions) ==
    /\ pc[h] = "idle"
    /\ \E u \in uris, c \in lists, v \in versions :
           req' = [req EXCEPT ![h] = [kind |-> "did_change", uri |-> u,
                                      changes |-> c, version |-> v]]
    /\ Goto(h, "dc_write")
    /\ UNCHANGED <<Shared, Locks, loc, out, init_seen, pin, pout>>

\* lines 834-840; an empty change list ends the handler
DidChangeWrite(h) ==
    /\ pc[h] = "dc_write"
    /\ LET change == LastChange(req[h].changes)
       IN  IF IsSome(change)
           THEN /\ CanWrite("documents")
                /\ documents' = DocUpdate(documents, req[h].uri, Unwrap(change),
                                          req[h].version)
                /\ wheld' = [wheld EXCEPT ![h] = @ \cup {"documents"}]
                /\ Goto(h, "dc_diagnose")
                /\ UNCHANGED rheld
           ELSE Return(h) /\ UNCHANGED documents
    /\ UNCHANGED <<config, translation_store, key_finder, workspace_root, caps,
                   disk, req, loc, out, init_seen, pin, pout>>

\* as DidChangeContent, but the first change of the notification is taken
DidChangeContentFirst(h) == req[h].changes[1]

\* the content handed to diagnose_document, line 843
DidChangeContent(h) == Unwrap(LastChange(req[h].changes))

\* lines 841-843
DidChangeDiagnose(h) ==
    /\ pc[h] = "dc_diagnose"
    /\ wheld' = [wheld EXCEPT ![h] = BlockEnd(@)]
    /\ CallDiagnose(h, req[h].uri, DidChangeContent(h), "done")
    /\ UNCHANGED <<Shared, rheld, req, out, init_seen, pin, pout>>

StartDidClose(h, uris) ==
    /\ pc[h] = "idle"
    /\ \E u \in uris : req' = [req EXCEPT ![h] = [kind |-> "did_close", uri |-> u]]
    /\ Goto(h, "dcl_write")
    /\ UNCHANGED <<Shared, Locks, loc, out, init_seen, pin, pout>>

\* lines 855-856
DidCloseWrite(h) ==
    /\ pc[h] = "dcl_write"
    /\ CanWrite("documents")
    /\ documents' = DocClose(documents, req[h].uri)
    /\ wheld' = [wheld EXCEPT ![h] = @ \cup {"documents"}]
    /\ Goto(h, "dcl_return")
    /\ UNCHANGED <<config, translation_store, key_finder, workspace_root, caps,
                   disk, rheld, req, loc, out, init_seen, pin, pout>>

\* line 857
DidCloseReturn(h) ==
    /\ pc[h] = "dcl_return"
    /\ Return(h)
    /\ UNCHANGED <<Shared, req, loc, out, init_seen, pin, pout>>

----------------------------------------------------------------------------
(* is_translation_uri, lines 537-550, and its helpers, 490-535 *)

translation_extensions == <<".json", ".yaml", ".yml", ".php", ".arb">>

\* as has_translation_extension, but any file name passes
AnyExtension(path) == Len(path) > 0

\* lines 494-499 (file names here are lower case already)
has_translation_extension(path) ==
    /\ Len(path) > 0
    /\ \E e \in 1..Len(translation_extensions) :
           EndsWith(path[Len(path)], translation_extensions[e])

IsPathPrefix(p, q) == Len(p) <= Len(q) /\ SubSeq(q, 1, Len(p)) = p

\* Path::is_file on the model's disk
IsFile(path) == \E l \in Locales : path = LocaleFilePath(l)

\* lines 508-535, for relative locale paths of one component
is_translation_file_in_paths(path, root, locale_paths) ==
    /\ has_translation_extension(path)
    /\ \E i \in 1..Len(locale_paths) :
           LET trimmed == TrimEndSlashes(locale_paths[i])
               candidate == root \o <<trimmed>>
           IN  /\ trimmed # ""
               /\ IF IsFile(candidate) THEN path = candidate
                  ELSE IsPathPrefix(candidate, path)

\* line 542
IsTranslationUriRoot(h) ==
    /\ pc[h] = "itu_root"
    /\ CanRead("workspace_root")
    /\ SetLoc(h, [loc[h] EXCEPT !.root = workspace_root])
    /\ Goto(h, "itu_config")
    /\ UNCHANGED <<Shared, Locks, req, out, init_seen, pin, pout>>

\* lines 543-549, and what did_save (848-851) and did_change_watched_files
\* (805-815) do with the answer
IsTranslationUriConfig(h) ==
    /\ pc[h] = "itu_config"
    /\ CanRead("config")
    /\ LET i == loc[h].changes
           yes == /\ IsSome(loc[h].root)
                  /\ is_translation_file_in_paths(req[h].uris[i], Unwrap(loc[h].root),
                                                  config.locale_paths)
       IN  IF yes
           THEN Goto(h, "rt_root") /\ UNCHANGED <<loc, Locks>>
           ELSE IF i < Len(req[h].uris)
                THEN /\ SetLoc(h, [loc[h] EXCEPT !.changes = i + 1])
                     /\ Goto(h, "itu_root")
                     /\ UNCHANGED Locks
                ELSE Return(h) /\ UNCHANGED loc
    /\ UNCHANGED <<Shared, req, out, init_seen, pin, pout>>

SaveUris == {LocaleUri, SrcUriA}

StartDidSave(h, uris) ==
    /\ pc[h] = "idle"
    /\ \E u \in uris :
           req' = [req EXCEPT ![h] = [kind |-> "did_save", uris |-> <<u>>]]
    /\ SetLoc(h, [loc[h] EXCEPT !.changes = 1])
    /\ Goto(h, "itu_root")
    /\ UNCHANGED <<Shared, Locks, out, init_seen, pin, pout>>

WatchedLists == {<< >>, <<SrcUriA>>, <<SrcUriA, LocaleUri>>}

StartDidChangeWatchedFiles(h, lists) ==
    /\ pc[h] = "idle"
    /\ \E us \in lists :
           /\ req' = [req EXCEPT ![h] = [kind |-> "did_change_watched_files",
                                         uris |-> us]]
           /\ IF Len(us) = 0
              THEN Return(h) /\ UNCHANGED loc
              ELSE /\ SetLoc(h, [loc[h] EXCEPT !.changes = 1])
                   /\ Goto(h, "itu_root")
                   /\ UNCHANGED Locks
    /\ UNCHANGED <<Shared, out, init_seen, pin, pout>>

----------------------------------------------------------------------------
(* reload_translations, lines 552-579; refresh_inlay_hints, 581-587 *)

\* as AfterReload, but the command forgets to re-diagnose
AfterReloadReturns(h) == "done"

\* where the caller of reload_translations goes on: execute_command (1083-
\* 1086) re-diagnoses the open documents, the notifications return
AfterReload(h) ==
    IF req[h].kind = "execute_command" THEN "rd_documents" ELSE "done"

\* line 553
ReloadRoot(h) ==
    /\ pc[h] = "rt_root"
    /\ CanRead("workspace_root")
    /\ SetLoc(h, [loc[h] EXCEPT !.root = workspace_root])
    /\ Goto(h, "rt_config")
    /\ UNCHANGED <<Shared, Locks, req, out, init_seen, pin, pout>>

\* lines 554-558
ReloadConfig(h) ==
    /\ pc[h] = "rt_config"
    /\ CanRead("config")
    /\ SetLoc(h, [loc[h] EXCEPT !.locale_paths = config.locale_paths])
    /\ IF IsSome(loc[h].root) THEN Goto(h, "rt_scan") ELSE Goto(h, AfterReload(h))
    /\ UNCHANGED <<Shared, Locks, req, out, init_seen, pin, pout>>

\* as ReloadScan, but the scan reads the files as they were at start-up
ReloadScanCached(h) ==
    /\ pc[h] = "rt_scan"
    /\ SetLoc(h, [loc[h] EXCEPT !.new_store =
           Some(scan_and_load(Unwrap(loc[h].root), loc[h].locale_paths, InitialDisk))])
    /\ Goto(h, "rt_log")
    /\ UNCHANGED <<Shared, Locks, req, out, init_seen, pin, pout>>

\* lines 560-564
ReloadScan(h) ==
    /\ pc[h] = "rt_scan"
    /\ SetLoc(h, [loc[h] EXCEPT !.new_store =
           Some(scan_and_load(Unwrap(loc[h].root), loc[h].locale_paths, disk))])
    /\ Goto(h, "rt_log")
    /\ UNCHANGED <<Shared, Locks, req, out, init_seen, pin, pout>>

\* lines 566-575
ReloadLog(h) ==
    /\ pc[h] = "rt_log"
    /\ Emit(h, [call |-> "log_message"])
    /\ Goto(h, "rt_publish")
    /\ UNCHANGED <<Shared, Locks, req, loc, init_seen, pin, pout>>

\* as ReloadPublish, but the reload also loads and stores the config again
ReloadPublishWithConfig(h) ==
    /\ pc[h] = "rt_publish"
    /\ CanWrite("translation_store")
    /\ translation_store' = loc[h].new_store
    /\ config' = [load_from_workspace(Unwrap(loc[h].root)) EXCEPT
                      !.locale_paths = <<"lang", "i18n">>]
    /\ Emit(h, [call |-> "(translation_store written)"])
    /\ Goto(h, "rih_flag")
    /\ UNCHANGED <<documents, key_finder, workspace_root, caps, disk,
                   Locks, req, loc, init_seen, pin, pout>>

\* line 577
ReloadPublish(h) ==
    /\ pc[h] = "rt_publish"
    /\ CanWrite("translation_store")
    /\ translation_store' = loc[h].new_store
    /\ Emit(h, [call |-> "(translation_store written)"])
    /\ Goto(h, "rih_flag")
    /\ UNCHANGED <<config, documents, key_finder, workspace_root, caps, disk,
                   Locks, req, loc, init_seen, pin, pout>>

\* line 582
RefreshFlag(h) ==
    /\ pc[h] = "rih_flag"
    /\ CanRead("inlay_hint_refresh_supported")
    /\ IF caps.inlay_refresh THEN Goto(h, "rih_call") ELSE Goto(h, AfterReload(h))
    /\ UNCHANGED <<Shared, Locks, req, loc, out, init_seen, pin, pout>>

\* line 583
RefreshCall(h) ==
    /\ pc[h] = "rih_call"
    /\ Emit(h, [call |-> "inlay_hint_refresh"])
    /\ Goto(h, AfterReload(h))
    /\ UNCHANGED <<Shared, Locks, req, loc, init_seen, pin, pout>>

----------------------------------------------------------------------------
(* execute_command, lines 1004-1089 *)

CreateKeyCommand == "intl-lens.createRawTranslationKey"

\* JSON values a client can pass as arguments
StrArg(x) == [type |-> "string", str |-> x]
NumArg == [type |-> "number", str |-> ""]

CommandRequests ==
    {[command |-> CreateKeyCommand, arguments |-> <<StrArg("bye")>>]}
    \cup {[command |-> CreateKeyCommand, arguments |-> << >>],
          [command |-> CreateKeyCommand, arguments |-> <<NumArg>>],
          [command |-> "other.command", arguments |-> <<StrArg("hello")>>]}

\* as KeyArgument, but a first argument of any JSON type is taken as the key
KeyArgumentAnyType(arguments) ==
    IF Len(arguments) > 0 THEN Some(arguments[1].str) ELSE None

\* lines 1009-1013: arguments.first().and_then(|v| v.as_str())
KeyArgument(arguments) ==
    IF Len(arguments) > 0 /\ arguments[1].type = "string"
    THEN Some(arguments[1].str)
    ELSE None

\* line 1020
RawValue(key) == "_" \o key \o "_"

\* lines 1005-1018: the command name and its argument are checked first
StartExecuteCommand(h, requests) ==
    /\ pc[h] = "idle"
    /\ \E c \in requests :
           /\ req' = [req EXCEPT ![h] =
                  [kind |-> "execute_command", command |-> c.command,
                   arguments |-> c.arguments]]
           /\ IF c.command = CreateKeyCommand /\ IsSome(KeyArgument(c.arguments))
              THEN Goto(h, "ec_store") /\ UNCHANGED Locks
              ELSE Return(h)
    /\ UNCHANGED <<Shared, loc, out, init_seen, pin, pout>>

\* lines 1034-1042: the files of every locale, each once
LocaleFiles(store) ==
    SelectSeq(LocaleOrder, LAMBDA l : l \in get_locales(store))

\* as ExecStore, but the read guard of the catalog is kept over the file loop
ExecStoreKeepsGuard(h) ==
    /\ pc[h] = "ec_store"
    /\ CanRead("translation_store")
    /\ IF IsSome(translation_store)
       THEN LET files == LocaleFiles(Unwrap(translation_store))
            IN  /\ SetLoc(h, [loc[h] EXCEPT !.files = files, !.f = 1,
                                            !.files_written = 0])
                /\ Goto(h, IF Len(files) = 0 THEN "rt_root" ELSE "ec_read")
                /\ rheld' = [rheld EXCEPT ![h] = @ \cup {"translation_store"}]
                /\ UNCHANGED wheld
       ELSE Return(h) /\ UNCHANGED loc
    /\ UNCHANGED <<Shared, req, out, init_seen, pin, pout>>

\* lines 1027-1043; the read guard is dropped before the files are touched
ExecStore(h) ==
    /\ pc[h] = "ec_store"
    /\ CanRead("translation_store")
    /\ IF IsSome(translation_store)
       THEN LET files == LocaleFiles(Unwrap(translation_store))
            IN  /\ SetLoc(h, [loc[h] EXCEPT !.files = files, !.f = 1,
                                            !.files_written = 0])
                /\ Goto(h, IF Len(files) = 0 THEN "rt_root" ELSE "ec_read")
                /\ UNCHANGED Locks
       ELSE Return(h) /\ UNCHANGED loc
    /\ UNCHANGED <<Shared, req, out, init_seen, pin, pout>>

\* as NextFile, but the loop over the files ends after the current file
NextFileStops(h) == "rt_root"

\* the position after the file loop's current iteration
NextFile(h) == IF loc[h].f = Len(loc[h].files) THEN "rt_root" ELSE "ec_read"

\* lines 1047-1059: skip a non-JSON file; read the file, which can fail
ExecRead(h) ==
    /\ pc[h] = "ec_read"
    /\ LET l == loc[h].files[loc[h].f]
       IN  \E ok \in BOOLEAN :
               IF FileExtension(l) = "json" /\ ok
               THEN /\ SetLoc(h, [loc[h] EXCEPT !.file_content = Some(disk[l])])
                    /\ Goto(h, "ec_write")
               ELSE /\ SetLoc(h, [loc[h] EXCEPT !.f = @ + 1])
                    /\ Goto(h, NextFile(h))
    /\ UNCHANGED <<Shared, Locks, req, out, init_seen, pin, pout>>

\* insert_key_into_json (1174-1252) as seen on the parsed view of a locale
\* file; the engine on the text of the file is modelled further down
InsertKey(file, key, value) ==
    IF file = NotAnObject THEN None
    ELSE Some([k \in DOMAIN file \cup {key} |-> IF k = key THEN value ELSE file[k]])

\* lines 1061-1072: insert into what was read, write the file, which can fail
ExecWrite(h) ==
    /\ pc[h] = "ec_write"
    /\ LET l == loc[h].files[loc[h].f]
           key == Unwrap(KeyArgument(req[h].arguments))
           result == InsertKey(Unwrap(loc[h].file_content), key, RawValue(key))
       IN  \E ok \in BOOLEAN :
               IF IsSome(result) /\ ok
               THEN /\ disk' = [disk EXCEPT ![l] = Unwrap(result)]
                    /\ Emit(h, [call |-> "(file written)", file |-> l])
                    /\ SetLoc(h, [loc[h] EXCEPT !.f = @ + 1, !.file_content = None,
                                                !.files_written = @ + 1])
               ELSE /\ SetLoc(h, [loc[h] EXCEPT !.f = @ + 1, !.file_content = None])
                    /\ UNCHANGED <<disk, out>>
    /\ Goto(h, NextFile(h))
    /\ UNCHANGED <<config, documents, translation_store, key_finder,
                   workspace_root, caps, Locks, req, init_seen, pin, pout>>

----------------------------------------------------------------------------
(* re_diagnose_open_documents, lines 589-606 *)

\* DocumentStore::uris, in a fixed order
UriOrder == <<SrcUriA, SrcUriB>>

OpenEntries(docs) ==
    LET uris == SelectSeq(UriOrder, LAMBDA u : u \in DOMAIN docs)
    IN  [j \in 1..Len(uris) |-> [uri |-> uris[j], content |-> docs[uris[j]].content]]

\* lines 590-599: copy (uri, content) of every open document, drop the guard
RediagDocuments(h) ==
    /\ pc[h] = "rd_documents"
    /\ CanRead("documents")
    /\ SetLoc(h, [loc[h] EXCEPT !.entries = OpenEntries(documents), !.e = 1])
    /\ Goto(h, "rd_next")
    /\ UNCHANGED <<Shared, Locks, req, out, init_seen, pin, pout>>

\* lines 601-605: the next entry is diagnosed, or the loop and handler end
RediagNext(h) ==
    /\ pc[h] = "rd_next"
    /\ IF loc[h].e <= Len(loc[h].entries)
       THEN /\ Goto(h, "cd_key_finder")
            /\ SetLoc(h, [loc[h] EXCEPT
                   !.uri = loc[h].entries[loc[h].e].uri,
                   !.content = loc[h].entries[loc[h].e].content,
                   !.ret = "rd_next", !.e = @ + 1,
                   !.kf = None, !.store = None, !.source_locale = "",
                   !.found_keys = << >>, !.i = 0, !.diagnostics = << >>])
            /\ UNCHANGED Locks
       ELSE Return(h) /\ UNCHANGED loc
    /\ UNCHANGED <<Shared, req, out, init_seen, pin, pout>>

----------------------------------------------------------------------------
(* The client and the file system *)

(* initialized, lines 791-797, with register_inlay_hint_capability, 88-188, *)
(* register_watched_files_capability, 190-237, and build_file_watchers.    *)

\* the characters of patterns and paths, in byte order
ByteOrder == "*./ABCDEFGHIJKLMNOPQRSTUVWXYZ\\_abcdefghijklmnopqrstuvwxyz"

CharRank(c) == CHOOSE i \in 1..Len(ByteOrder) : SubSeq(ByteOrder, i, i) = c

\* the order of str::cmp
RECURSIVE StrLess(_, _)
StrLess(a, b) ==
    IF Len(b) = 0 THEN FALSE
    ELSE IF Len(a) = 0 THEN TRUE
    ELSE IF SubSeq(a, 1, 1) = SubSeq(b, 1, 1) THEN StrLess(Tail(a), Tail(b))
    ELSE CharRank(SubSeq(a, 1, 1)) < CharRank(SubSeq(b, 1, 1))

\* patterns.sort(); patterns.dedup(), lines 444-445
RECURSIVE SortDedup(_)
SortDedup(S) ==
    IF S = {} THEN << >>
    ELSE LET m == CHOOSE x \in S : \A y \in S \ {x} : StrLess(x, y)
         IN  <<m>> \o SortDedup(S \ {m})

\* the ASCII letters, upper case and lower case
UpperCase == "ABCDEFGHIJKLMNOPQRSTUVWXYZ"
LowerCase == "abcdefghijklmnopqrstuvwxyz"

\* str::to_ascii_lowercase
RECURSIVE to_ascii_lowercase(_)
to_ascii_lowercase(s) ==
    IF Len(s) = 0 THEN ""
    ELSE LET c == SubSeq(s, 1, 1)
             up == {i \in 1..Len(UpperCase) : SubSeq(UpperCase, i, i) = c}
         IN  (IF up = {} THEN c
              ELSE LET i == CHOOSE i \in up : TRUE IN SubSeq(LowerCase, i, i))
             \o to_ascii_lowercase(Tail(s))

\* as is_translation_file_path, but the extension is compared as written
CaseSensitiveFilePath(path) ==
    \E e \in 1..Len(translation_extensions) : EndsWith(path, translation_extensions[e])

\* lines 501-506
is_translation_file_path(path) ==
    LET lower == to_ascii_lowercase(path)
    IN  \E e \in 1..Len(translation_extensions) : EndsWith(lower, translation_extensions[e])

\* lines 428-442: the patterns one locale path contributes
PathPatterns(locale_path) ==
    LET trimmed == TrimEndSlashes(locale_path)
    IN  IF trimmed = "" THEN {}
        ELSE IF is_translation_file_path(trimmed) THEN {trimmed}
        ELSE {trimmed \o "/**/*" \o translation_extensions[e] :
                  e \in 1..Len(translation_extensions)}

\* a path as the string to_string_lossy gives
RECURSIVE PathString(_)
PathString(path) ==
    IF Len(path) = 0 THEN "" ELSE "/" \o Head(path) \o PathString(Tail(path))

\* lines 475-488
to_absolute_pattern(root, pattern) ==
    LET root_str == TrimEndSlashes(PathString(root))
    IN  IF pattern = "" THEN root_str
        ELSE IF StartsWith(pattern, "/") THEN root_str \o pattern
        ELSE root_str \o "/" \o pattern

\* lines 453-470: the watcher of one pattern
FileSystemWatcher(pattern, workspace_root_opt, relative_pattern_support) ==
    IF relative_pattern_support /\ IsSome(workspace_root_opt)
    THEN [glob |-> "relative",
          base_uri |-> "file://" \o PathString(Unwrap(workspace_root_opt)) \o "/",
          pattern |-> pattern]
    ELSE IF IsSome(workspace_root_opt)
    THEN [glob |-> "string", base_uri |-> "",
          pattern |-> to_absolute_pattern(Unwrap(workspace_root_opt), pattern)]
    ELSE [glob |-> "string", base_uri |-> "", pattern |-> pattern]

\* lines 421-473
build_file_watchers(locale_paths, workspace_root_opt, relative_pattern_support) ==
    LET patterns == SortDedup(UNION {PathPatterns(locale_paths[i]) :
                                         i \in 1..Len(locale_paths)})
    IN  [j \in 1..Len(patterns) |->
            FileSystemWatcher(patterns[j], workspace_root_opt, relative_pattern_support)]

\* build_file_watchers tabulated for the configurations of the session
SessionWatchers ==
    [locale_paths \in {DefaultConfig.locale_paths} \cup
                      {load_from_workspace(Unwrap(r)).locale_paths :
                           r \in AllRoots \ {None}},
     root \in AllRoots,
     relative \in BOOLEAN |-> build_file_watchers(locale_paths, root, relative)]

\* the initialized notification follows the response to initialize
StartInitialized(h) ==
    /\ pc[h] = "done"
    /\ req[h].kind = "initialize"
    /\ req' = [req EXCEPT ![h] = [kind |-> "initialized"]]
    /\ out' = [out EXCEPT ![h] = << >>]
    /\ Goto(h, "in_log")
    /\ UNCHANGED <<Shared, Locks, loc, init_seen, pin, pout>>

\* register_watched_files_capability up to its call: lines 191-213 read the
\* flag, the locale paths, the root and the relative-pattern flag, each
\* guard dropped at the end of its statement
WatchersToRegister ==
    IF caps.watch_dyn
    THEN IF <<config.locale_paths, workspace_root, caps.watch_rel>> \in DOMAIN SessionWatchers
         THEN SessionWatchers[config.locale_paths, workspace_root, caps.watch_rel]
         ELSE build_file_watchers(config.locale_paths, workspace_root, caps.watch_rel)
    ELSE << >>

\* as AfterInlayRegistration, but the watcher registration is never skipped
AlwaysRegisterWatch == "rw_call"

AfterInlayRegistration == IF Len(WatchersToRegister) > 0 THEN "rw_call" ELSE "done"

\* lines 792-794, then line 89 of register_inlay_hint_capability
InitializedLog(h) ==
    /\ pc[h] = "in_log"
    /\ Emit(h, [call |-> "log_message"])
    /\ CanRead("inlay_hint_dynamic_registration_supported")
    /\ Goto(h, IF caps.inlay_dyn THEN "ri_call" ELSE AfterInlayRegistration)
    /\ UNCHANGED <<Shared, Locks, req, loc, init_seen, pin, pout>>

\* line 184, then the reads of register_watched_files_capability
RegisterInlayCall(h) ==
    /\ pc[h] = "ri_call"
    /\ Emit(h, [call |-> "register_capability", id |-> "intl-lens-inlay-hint",
                method |-> "textDocument/inlayHint", watchers |-> << >>])
    /\ Goto(h, AfterInlayRegistration)
    /\ UNCHANGED <<Shared, Locks, req, loc, init_seen, pin, pout>>

\* line 233
RegisterWatchCall(h) ==
    /\ pc[h] = "rw_call"
    /\ Emit(h, [call |-> "register_capability", id |-> "intl-lens-watched-files",
                method |-> "workspace/didChangeWatchedFiles",
                watchers |-> WatchersToRegister])
    /\ Return(h)
    /\ UNCHANGED <<Shared, req, loc, init_seen, pin, pout>>

\* the response is sent and the task ends
Finish(h) ==
    /\ pc[h] = "done"
    /\ pc' = [pc EXCEPT ![h] = "idle"]
    /\ req' = [req EXCEPT ![h] = NoReq]
    /\ loc' = [loc EXCEPT ![h] = NoLoc]
    /\ out' = [out EXCEPT ![h] = << >>]
    /\ UNCHANGED <<Shared, Locks, init_seen, pin, pout>>

\* somebody edits the en locale file: the entry "bye" is added or removed
EditLocaleFile ==
    /\ disk' = [disk EXCEPT !["en"] =
           IF "bye" \in DOMAIN @
           THEN [k \in DOMAIN @ \ {"bye"} |-> @[k]]
           ELSE [k \in DOMAIN @ \cup {"bye"} |-> IF k = "bye" THEN "Bye" ELSE @[k]]]
    /\ UNCHANGED <<config, documents, translation_store, key_finder,
                   workspace_root, caps, Locks, pc, req, loc, out, init_seen,
                   pin, pout>>

NoPure == [op |-> "none"]

----------------------------------------------------------------------------
(* Query providers: get_hover_content 337-385, get_completions 387-419,    *)
(* get_definition_locations 608-656, extract_completion_prefix 1406-1423,  *)
(* truncate_string 15-22                                                   *)

KeyOrder == <<"bye", "hello">>

SortedLocales(set) == SelectSeq(LocaleOrder, LAMBDA l : l \in set)

\* the text of a line holding one call site
\* the quote of a call site: the double quote unless the token names another
QuoteOf(token) == IF "quote" \in DOMAIN token THEN token.quote ELSE "\""

LineText(token) ==
    token.fn \o "(" \o QuoteOf(token) \o token.key \o QuoteOf(token) \o ")"

\* KeyFinder::find_key_at_position (crate::i18n)
find_key_at_position(kf, content, line, character) ==
    LET found == find_keys(kf, content)
        hits == SelectSeq(found, LAMBDA k : /\ k.line = line
                                            /\ k.start_char <= character
                                            /\ character <= k.end_char)
    IN  IF Len(hits) = 0 THEN None ELSE Some(hits[1])

\* TranslationStore::get_all_translations: the locales that hold the key
TranslationLocales(store, key) ==
    {l \in DOMAIN store.tr : key \in DOMAIN store.tr[l]}

\* TranslationStore::get_translation_location
get_translation_location(store, key, locale) ==
    IF locale \in DOMAIN store.tr /\ key \in DOMAIN store.tr[locale]
    THEN Some([file_path |-> LocaleFilePath(locale),
               line |-> Len(SelectSeq(KeyOrder,
                            LAMBDA k : k \in DOMAIN store.tr[locale] /\ k # key)) + 1])
    ELSE None

\* lines 350-363
HoverLine(store, key, locale) ==
    [locale |-> locale, value |-> store.tr[locale][key],
     link |-> get_translation_location(store, key, locale)]

\* lines 337-385: heading, source-locale line, separator, the other locales
get_hover_content(store_opt, cfg, key) ==
    IF ~IsSome(store_opt) THEN None
    ELSE LET store == Unwrap(store_opt)
             locales == TranslationLocales(store, key)
             others == SortedLocales(locales \ {cfg.source_locale})
         IN  IF locales = {} THEN None
             ELSE Some([heading |-> key,
                        source  |-> IF cfg.source_locale \in locales
                                    THEN Some(HoverLine(store, key, cfg.source_locale))
                                    ELSE None,
                        others  |-> [j \in 1..Len(others) |->
                                        HoverLine(store, key, others[j])]])

\* line 401
CompletionCap == 100

\* lines 387-419
get_completions(store_opt, cfg, prefix) ==
    IF ~IsSome(store_opt) THEN << >>
    ELSE LET store == Unwrap(store_opt)
             keys == SelectSeq(KeyOrder,
                         LAMBDA k : /\ k \in get_all_keys(store)
                                    /\ (StartsWith(k, prefix) \/ prefix = ""))
             taken == SubSeq(keys, 1, IF Len(keys) < CompletionCap THEN Len(keys)
                                      ELSE CompletionCap)
         IN  [j \in 1..Len(taken) |->
                 [label |-> taken[j],
                  detail |-> get_translation(store, taken[j], cfg.source_locale),
                  insert_text |-> taken[j]]]

\* lines 608-656
get_definition_locations(store_opt, cfg, key) ==
    IF ~IsSome(store_opt) THEN << >>
    ELSE LET store == Unwrap(store_opt)
             translations == TranslationLocales(store, key)
             locales == (IF cfg.source_locale \in translations
                         THEN <<cfg.source_locale>> ELSE << >>)
                        \o SortedLocales(translations \ {cfg.source_locale})
             located == SelectSeq(locales,
                            LAMBDA l : IsSome(get_translation_location(store, key, l)))
         IN  [j \in 1..Len(located) |->
                 LET at == Unwrap(get_translation_location(store, key, located[j]))
                 IN  [uri |-> at.file_path, line |-> at.line]]

\* the last position (from 0) at which pattern occurs in s, as str::rfind
RECURSIVE RFindFrom(_, _, _)
RFindFrom(s, pattern, at) ==
    IF at < 0 THEN None
    ELSE IF SubSeq(s, at + 1, at + Len(pattern)) = pattern THEN Some(at)
    ELSE RFindFrom(s, pattern, at - 1)

RFind(s, pattern) == RFindFrom(s, pattern, Len(s) - Len(pattern))

ContainsChar(s, c) == \E j \in 1..Len(s) : SubSeq(s, j, j) = c

quote_patterns == <<"t(\"", "t('", "$t(\"", "$t('", "i18n.t(\"", "i18n.t('">>

\* lines 1406-1423: the first pattern, in the order of the list, whose last
\* occurrence is followed by no quote
RECURSIVE PrefixFrom(_, _)
PrefixFrom(before_cursor, p) ==
    IF p > Len(quote_patterns) THEN None
    ELSE LET pos == RFind(before_cursor, quote_patterns[p])
         IN  IF IsSome(pos)
             THEN LET prefix == SubSeq(before_cursor,
                                       Unwrap(pos) + Len(quote_patterns[p]) + 1,
                                       Len(before_cursor))
                  IN  IF ~ContainsChar(prefix, "\"") /\ ~ContainsChar(prefix, "'")
                      THEN Some(prefix)
                      ELSE PrefixFrom(before_cursor, p + 1)
             ELSE PrefixFrom(before_cursor, p + 1)

\* characters that take two bytes in UTF-8 and one unit in UTF-16
TwoByteChars == {"é"}

\* str::len: the bytes of a text in UTF-8
RECURSIVE ByteLen(_)
ByteLen(s) ==
    IF Len(s) = 0 THEN 0
    ELSE (IF SubSeq(s, 1, 1) \in TwoByteChars THEN 2 ELSE 1) + ByteLen(Tail(s))

\* the outcome of a call that panics
Panicked == <<"panicked", "byte index is not a char boundary">>

\* &line[..n] for n <= line.len(): the characters that end at byte n; None
\* when byte n is inside a character, where the slice panics
ByteSliceTo(line, n) ==
    LET ends == {k \in 0..Len(line) : ByteLen(SubSeq(line, 1, k)) = n}
    IN  IF ends = {} THEN None
        ELSE Some(SubSeq(line, 1, CHOOSE k \in ends : TRUE))

\* as extract_completion_prefix, but character counts characters
PrefixByCharacters(line, character) ==
    PrefixFrom(SubSeq(line, 1, IF character < Len(line) THEN character ELSE Len(line)), 1)

\* lines 1406-1423; line 1407 slices the line at byte character.min(line.len())
extract_completion_prefix(line, character) ==
    LET len == ByteLen(line)
        before_cursor == ByteSliceTo(line, IF character < len THEN character ELSE len)
    IN  IF IsSome(before_cursor) THEN PrefixFrom(Unwrap(before_cursor), 1) ELSE Panicked

\* line 1139
InlayMaxChars == 30

\* lines 15-22
truncate_string(s, max_chars) ==
    IF Len(s) <= max_chars THEN s
    ELSE SubSeq(s, 1, IF max_chars >= 3 THEN max_chars - 3 ELSE 0) \o "..."

\* as position_leq, but a position is not before itself
PositionBefore(a, b) ==
    a.line < b.line \/ (a.line = b.line /\ a.character < b.character)

\* lines 1116-1122
position_leq(a, b) ==
    a.line < b.line \/ (a.line = b.line /\ a.character <= b.character)

ranges_overlap(start, end, range) ==
    position_leq(range.start, end) /\ position_leq(start, range.end)

\* lines 1141-1147: past the closing quote, if one follows the key
HintChar(content, found_key) ==
    LET line == IF found_key.line + 1 <= Len(content)
                THEN LineText(content[found_key.line + 1]) ELSE ""
        next == SubSeq(line, found_key.end_char + 1, found_key.end_char + 1)
    IN  IF next = "'" \/ next = "\"" THEN found_key.end_char + 1
        ELSE found_key.end_char

\* lines 1124-1163 for one found key
InlayHintFor(store, source_locale, content, range, found_key) ==
    LET span == UsageRange(found_key)
        translation == get_translation(store, found_key.key, source_locale)
    IN  IF range.start # range.end /\ ~ranges_overlap(span.start, span.end, range)
        THEN << >>
        ELSE IF IsSome(translation)
             THEN <<[position |-> [line |-> found_key.line,
                                   character |-> HintChar(content, found_key)],
                     label |-> "= " \o truncate_string(Unwrap(translation),
                                                       InlayMaxChars)]>>
             ELSE << >>

RECURSIVE InlayHints(_, _, _, _, _)
InlayHints(store, source_locale, content, range, found_keys) ==
    IF Len(found_keys) = 0 THEN << >>
    ELSE InlayHintFor(store, source_locale, content, range, Head(found_keys))
         \o InlayHints(store, source_locale, content, range, Tail(found_keys))

----------------------------------------------------------------------------
(* hover 859-890, completion 892-921, goto_definition 923-956,             *)
(* inlay_hint 1091-1167                                                    *)

\* the handler returns the response r and drops its guards
Respond(h, l, r) == Return(h) /\ SetLoc(h, [l EXCEPT !.result = r])

QueryPositions == {[line |-> 0, character |-> 5], [line |-> 1, character |-> 5]}

StartHover(h, uris, positions) ==
    /\ pc[h] = "idle"
    /\ \E u \in uris, p \in positions :
           req' = [req EXCEPT ![h] = [kind |-> "hover", uri |-> u, position |-> p]]
    /\ Goto(h, "hv_documents")
    /\ UNCHANGED <<Shared, Locks, loc, out, init_seen, pin, pout>>

\* as HoverDocuments, but a URI that is not cached is answered from an
\* empty text
HoverDocumentsUncached(h) ==
    /\ pc[h] = "hv_documents"
    /\ CanRead("documents")
    /\ LET doc == DocGet(documents, req[h].uri)
       IN  /\ rheld' = [rheld EXCEPT ![h] = @ \cup {"documents"}]
           /\ SetLoc(h, [loc[h] EXCEPT !.content = IF IsSome(doc)
                                                   THEN Unwrap(doc).content
                                                   ELSE << >>])
           /\ Goto(h, "hv_key_finder")
           /\ UNCHANGED wheld
    /\ UNCHANGED <<Shared, req, out, init_seen, pin, pout>>

\* lines 863-868
HoverDocuments(h) ==
    /\ pc[h] = "hv_documents"
    /\ CanRead("documents")
    /\ LET doc == DocGet(documents, req[h].uri)
       IN  IF IsSome(doc)
           THEN /\ rheld' = [rheld EXCEPT ![h] = @ \cup {"documents"}]
                /\ SetLoc(h, [loc[h] EXCEPT !.content = Unwrap(doc).content])
                /\ Goto(h, "hv_key_finder")
                /\ UNCHANGED wheld
           ELSE Respond(h, loc[h], None)
    /\ UNCHANGED <<Shared, req, out, init_seen, pin, pout>>

\* lines 869-877
HoverKeyFinder(h) ==
    /\ pc[h] = "hv_key_finder"
    /\ CanRead("key_finder")
    /\ LET found == find_key_at_position(key_finder, loc[h].content,
                                         req[h].position.line,
                                         req[h].position.character)
       IN  IF IsSome(found)
           THEN /\ rheld' = [rheld EXCEPT ![h] = @ \cup {"key_finder"}]
                /\ SetLoc(h, [loc[h] EXCEPT !.kf = Some(key_finder),
                                            !.found_keys = found])
                /\ Goto(h, "ghc_store")
                /\ UNCHANGED wheld
           ELSE Respond(h, loc[h], None)
    /\ UNCHANGED <<Shared, req, out, init_seen, pin, pout>>

\* as HoverStore, but the catalog is locked for writing
HoverStoreExclusive(h) ==
    /\ pc[h] = "ghc_store"
    /\ CanWrite("translation_store")
    /\ wheld' = [wheld EXCEPT ![h] = @ \cup {"translation_store"}]
    /\ SetLoc(h, [loc[h] EXCEPT !.store = translation_store])
    /\ Goto(h, "ghc_config")
    /\ UNCHANGED <<Shared, rheld, req, out, init_seen, pin, pout>>

\* line 338
HoverStore(h) ==
    /\ pc[h] = "ghc_store"
    /\ CanRead("translation_store")
    /\ rheld' = [rheld EXCEPT ![h] = StoreGuardKept(@)]
    /\ SetLoc(h, [loc[h] EXCEPT !.store = translation_store])
    /\ Goto(h, "ghc_config")
    /\ UNCHANGED <<Shared, wheld, req, out, init_seen, pin, pout>>

\* lines 339-385 and 879-889
HoverConfig(h) ==
    /\ pc[h] = "ghc_config"
    /\ CanRead("config")
    /\ Respond(h, [loc[h] EXCEPT !.source_locale = config.source_locale],
               get_hover_content(translation_store, config, loc[h].found_keys[1].key))
    /\ UNCHANGED <<Shared, req, out, init_seen, pin, pout>>

StartCompletion(h, uris, positions) ==
    /\ pc[h] = "idle"
    /\ \E u \in uris, p \in positions :
           req' = [req EXCEPT ![h] = [kind |-> "completion", uri |-> u,
                                      position |-> p]]
    /\ Goto(h, "cp_documents")
    /\ UNCHANGED <<Shared, Locks, loc, out, init_seen, pin, pout>>

\* lines 902-906: content.lines().nth(line).unwrap_or("")
LineContent(content, line) ==
    IF line + 1 <= Len(content) THEN LineText(content[line + 1]) ELSE ""

\* lines 896-912
CompletionDocuments(h) ==
    /\ pc[h] = "cp_documents"
    /\ CanRead("documents")
    /\ LET doc == DocGet(documents, req[h].uri)
           prefix == IF IsSome(doc)
                     THEN extract_completion_prefix(
                              LineContent(Unwrap(doc).content, req[h].position.line),
                              req[h].position.character)
                     ELSE None
       IN  IF IsSome(prefix)
           THEN /\ rheld' = [rheld EXCEPT ![h] = @ \cup {"documents"}]
                /\ SetLoc(h, [loc[h] EXCEPT !.content = Unwrap(doc).content,
                                            !.prefix = Unwrap(prefix)])
                /\ Goto(h, "gc_store")
                /\ UNCHANGED wheld
           ELSE Respond(h, loc[h], None)
    /\ UNCHANGED <<Shared, req, out, init_seen, pin, pout>>

\* line 388
CompletionStore(h) ==
    /\ pc[h] = "gc_store"
    /\ CanRead("translation_store")
    /\ rheld' = [rheld EXCEPT ![h] = StoreGuardKept(@)]
    /\ SetLoc(h, [loc[h] EXCEPT !.store = translation_store])
    /\ Goto(h, "gc_config")
    /\ UNCHANGED <<Shared, wheld, req, out, init_seen, pin, pout>>

\* lines 389-419 and 914-920
CompletionConfig(h) ==
    /\ pc[h] = "gc_config"
    /\ CanRead("config")
    /\ LET completions == get_completions(translation_store, config, loc[h].prefix)
       IN  Respond(h, [loc[h] EXCEPT !.source_locale = config.source_locale],
                   IF Len(completions) = 0 THEN None ELSE Some(completions))
    /\ UNCHANGED <<Shared, req, out, init_seen, pin, pout>>

StartGotoDefinition(h, uris, positions) ==
    /\ pc[h] = "idle"
    /\ \E u \in uris, p \in positions :
           req' = [req EXCEPT ![h] = [kind |-> "goto_definition", uri |-> u,
                                      position |-> p]]
    /\ Goto(h, "gd_documents")
    /\ UNCHANGED <<Shared, Locks, loc, out, init_seen, pin, pout>>

\* lines 930-935
DefinitionDocuments(h) ==
    /\ pc[h] = "gd_documents"
    /\ CanRead("documents")
    /\ LET doc == DocGet(documents, req[h].uri)
       IN  IF IsSome(doc)
           THEN /\ rheld' = [rheld EXCEPT ![h] = @ \cup {"documents"}]
                /\ SetLoc(h, [loc[h] EXCEPT !.content = Unwrap(doc).content])
                /\ Goto(h, "gd_key_finder")
                /\ UNCHANGED wheld
           ELSE Respond(h, loc[h], None)
    /\ UNCHANGED <<Shared, req, out, init_seen, pin, pout>>

\* lines 936-944
DefinitionKeyFinder(h) ==
    /\ pc[h] = "gd_key_finder"
    /\ CanRead("key_finder")
    /\ LET found == find_key_at_position(key_finder, loc[h].content,
                                         req[h].position.line,
                                         req[h].position.character)
       IN  IF IsSome(found)
           THEN /\ rheld' = [rheld EXCEPT ![h] = @ \cup {"key_finder"}]
                /\ SetLoc(h, [loc[h] EXCEPT !.kf = Some(key_finder),
                                            !.found_keys = found])
                /\ Goto(h, "gdl_store")
                /\ UNCHANGED wheld
           ELSE Respond(h, loc[h], None)
    /\ UNCHANGED <<Shared, req, out, init_seen, pin, pout>>

\* line 609
DefinitionStore(h) ==
    /\ pc[h] = "gdl_store"
    /\ CanRead("translation_store")
    /\ rheld' = [rheld EXCEPT ![h] = StoreGuardKept(@)]
    /\ SetLoc(h, [loc[h] EXCEPT !.store = translation_store])
    /\ Goto(h, "gdl_config")
    /\ UNCHANGED <<Shared, wheld, req, out, init_seen, pin, pout>>

\* lines 946-955: nothing, one location, or the list
DefinitionResponse(locations) ==
    IF Len(locations) = 0 THEN None
    ELSE IF Len(locations) = 1 THEN Some([scalar |-> TRUE, locations |-> locations])
    ELSE Some([scalar |-> FALSE, locations |-> locations])

\* lines 610-656 and 946-955
DefinitionConfig(h) ==
    /\ pc[h] = "gdl_config"
    /\ CanRead("config")
    /\ Respond(h, [loc[h] EXCEPT !.source_locale = config.source_locale],
               DefinitionResponse(get_definition_locations(
                   translation_store, config, loc[h].found_keys[1].key)))
    /\ UNCHANGED <<Shared, req, out, init_seen, pin, pout>>

QueryRanges ==
    {[start |-> [line |-> 0, character |-> 0], end |-> [line |-> 0, character |-> 0]],
     [start |-> [line |-> 1, character |-> 0], end |-> [line |-> 1, character |-> 9]]}

StartInlayHint(h, uris, ranges) ==
    /\ pc[h] = "idle"
    /\ \E u \in uris, r \in ranges :
           req' = [req EXCEPT ![h] = [kind |-> "inlay_hint", uri |-> u, range |-> r]]
    /\ Goto(h, "ih_config")
    /\ UNCHANGED <<Shared, Locks, loc, out, init_seen, pin, pout>>

\* line 1095
InlayConfig(h) ==
    /\ pc[h] = "ih_config"
    /\ CanRead("config")
    /\ SetLoc(h, [loc[h] EXCEPT !.source_locale = config.source_locale])
    /\ Goto(h, "ih_documents")
    /\ UNCHANGED <<Shared, Locks, req, out, init_seen, pin, pout>>

\* lines 1097-1103
InlayDocuments(h) ==
    /\ pc[h] = "ih_documents"
    /\ CanRead("documents")
    /\ LET doc == DocGet(documents, req[h].uri)
       IN  IF IsSome(doc)
           THEN /\ rheld' = [rheld EXCEPT ![h] = @ \cup {"documents"}]
                /\ SetLoc(h, [loc[h] EXCEPT !.content = Unwrap(doc).content])
                /\ Goto(h, "ih_key_finder")
                /\ UNCHANGED wheld
           ELSE Respond(h, loc[h], None)
    /\ UNCHANGED <<Shared, req, out, init_seen, pin, pout>>

\* lines 1104-1105
InlayKeyFinder(h) ==
    /\ pc[h] = "ih_key_finder"
    /\ CanRead("key_finder")
    /\ rheld' = [rheld EXCEPT ![h] = @ \cup {"key_finder"}]
    /\ SetLoc(h, [loc[h] EXCEPT !.kf = Some(key_finder),
                                !.found_keys = find_keys(key_finder, loc[h].content)])
    /\ Goto(h, "ih_store")
    /\ UNCHANGED <<Shared, wheld, req, out, init_seen, pin, pout>>

\* lines 1107-1166
InlayStore(h) ==
    /\ pc[h] = "ih_store"
    /\ CanRead("translation_store")
    /\ Respond(h, [loc[h] EXCEPT !.store = translation_store],
               IF IsSome(translation_store)
               THEN Some(InlayHints(Unwrap(translation_store), loc[h].source_locale,
                                    loc[h].content, req[h].range, loc[h].found_keys))
               ELSE None)
    /\ UNCHANGED <<Shared, req, out, init_seen, pin, pout>>

QueryStep(h) ==
    \/ HoverDocuments(h) \/ HoverKeyFinder(h) \/ HoverStore(h) \/ HoverConfig(h)
    \/ CompletionDocuments(h) \/ CompletionStore(h) \/ CompletionConfig(h)
    \/ DefinitionDocuments(h) \/ DefinitionKeyFinder(h) \/ DefinitionStore(h)
    \/ DefinitionConfig(h)
    \/ InlayConfig(h) \/ InlayDocuments(h) \/ InlayKeyFinder(h) \/ InlayStore(h)

\* the steps of initialize after its start
InitializeStep(h) ==
    \/ InitInlayDyn(h) \/ InitInlayRefresh(h) \/ InitWatchDyn(h) \/ InitWatchRel(h)
    \/ InitWorkspaceKeyFinder(h) \/ InitWorkspaceScan(h) \/ InitWorkspaceLog(h)
    \/ InitWorkspaceStore(h) \/ InitWorkspaceConfig(h) \/ InitWorkspaceRoot(h)

\* the steps of initialized
InitializedStep(h) ==
    \/ StartInitialized(h) \/ InitializedLog(h) \/ RegisterInlayCall(h)
    \/ RegisterWatchCall(h)

DiagnoseStep(h) ==
    \/ ComputeKeyFinder(h) \/ ComputeStore(h) \/ ComputeConfig(h)
    \/ ComputeLoop(h) \/ DiagnosePublish(h)

DocumentStep(h) ==
    \/ DidOpenWrite(h) \/ DidOpenDiagnose(h)
    \/ DidChangeWrite(h) \/ DidChangeDiagnose(h)
    \/ DidCloseWrite(h) \/ DidCloseReturn(h)

ReloadStep(h) ==
    \/ ReloadRoot(h) \/ ReloadConfig(h) \/ ReloadScan(h) \/ ReloadLog(h)
    \/ ReloadPublish(h) \/ RefreshFlag(h) \/ RefreshCall(h)

NotifyStep(h) == IsTranslationUriRoot(h) \/ IsTranslationUriConfig(h)

CommandStep(h) ==
    \/ ExecStore(h) \/ ExecRead(h) \/ ExecWrite(h)
    \/ RediagDocuments(h) \/ RediagNext(h)

Init == SessionInit /\ pin = NoPure /\ pout = None

\* a worker starts any notification or command
StartWorker(h) ==
    \/ StartDidOpen(h, DocUris, SessionTexts, {1})
    \/ StartDidChange(h, DocUris, ChangeLists, {1})
    \/ StartDidClose(h, DocUris)
    \/ StartDidSave(h, SaveUris)
    \/ StartDidChangeWatchedFiles(h, WatchedLists)
    \/ StartExecuteCommand(h, CommandRequests)
    \/ StartHover(h, DocUris, QueryPositions)
    \/ StartCompletion(h, DocUris, QueryPositions)
    \/ StartGotoDefinition(h, DocUris, QueryPositions)
    \/ StartInlayHint(h, DocUris, QueryRanges)

\* the session from its start: task 0 serves initialize and then initialized,
\* next to one worker that serves any other requests, one after the other
Next ==
    \/ StartInitialize(0, ClientCaps, SessionRoots) \/ InitializeStep(0) \/ InitializedStep(0)
    \/ StartWorker(1) \/ DiagnoseStep(1) \/ DocumentStep(1) \/ ReloadStep(1)
    \/ NotifyStep(1) \/ CommandStep(1) \/ QueryStep(1) \/ Finish(1)
    \/ EditLocaleFile

Spec == Init /\ [][Next]_vars

----------------------------------------------------------------------------
(* compute_diagnostics on its own: every text of up to MaxUsages call      *)
(* sites against every small catalog.                                      *)

DiagTokens == [fn : {"t", "x"}, key : Keys]

DiagContents == UNION {[1..n -> DiagTokens] : n \in 0..MaxUsages}

\* the key -> value maps a locale can hold
LocaleMaps(values) == UNION {[D -> values] : D \in SUBSET Keys}

\* catalogs with en alone, with en and a fr that holds plain values, or
\* with en, fr and de
DiagStores ==
    {[root |-> WorkspaceRoot, tr |-> [l \in {"en"} |-> m]] : m \in LocaleMaps(Values)}
    \cup {[root |-> WorkspaceRoot, tr |-> [l \in Locales |-> IF l = "en" THEN m ELSE f]] :
              m \in LocaleMaps(Values), f \in LocaleMaps({"Hi"})}
    \cup {[root |-> WorkspaceRoot,
           tr |-> [l \in {"de", "en", "fr"} |->
                      IF l = "en" THEN m ELSE IF l = "fr" THEN f ELSE d]] :
              m \in LocaleMaps({"Hi", "_bye_"}), f \in LocaleMaps({"Hi"}),
              d \in LocaleMaps({"Hi"})}

InitDiag ==
    /\ SessionInit
    /\ pin \in [op : {"compute_diagnostics"}, kf : {KeyFinderNew({"t"})},
                store : {None} \cup {Some(st) : st \in DiagStores},
                source_locale : Locales, content : DiagContents]
    /\ pout = None

ApplyComputeDiagnostics ==
    /\ pin.op = "compute_diagnostics"
    /\ pout = None
    /\ pout' = Some(compute_diagnostics(pin.kf, pin.store, pin.source_locale,
                                        pin.content))
    /\ UNCHANGED <<sessionVars, pin>>

NextDiag == ApplyComputeDiagnostics

SpecDiag == InitDiag /\ [][NextDiag]_vars

\* the usages found in the input, and the diagnostics reported on one of them
DiagUsages == find_keys(pin.kf, pin.content)

DiagnosticsAt(found_key) ==
    SelectSeq(Unwrap(pout),
              LAMBDA d : d.range.start.line = found_key.line
                         /\ d.range.start.character = found_key.start_char)

DiagComputed == pin.op = "compute_diagnostics" /\ IsSome(pout) /\ IsSome(pin.store)

\* C9: a found usage whose key no locale of the catalog holds gets exactly
\* one diagnostic: code missing-translation, severity WARNING, the range
\* (line, start_char)-(line, end_char) of the usage, and the message
\* Translation key '<key>' not found.
C9_MissingKeyDiagnostic ==
    DiagComputed =>
        \A j \in 1..Len(DiagUsages) :
            LET u == DiagUsages[j]
                mine == DiagnosticsAt(u)
            IN  (\A l \in DOMAIN Unwrap(pin.store).tr :
                     u.key \notin DOMAIN Unwrap(pin.store).tr[l]) =>
                    /\ Len(mine) = 1
                    /\ mine[1].code = "missing-translation"
                    /\ mine[1].severity = "WARNING"
                    /\ mine[1].range = [start |-> [line |-> u.line, character |-> u.start_char],
                                        end |-> [line |-> u.line, character |-> u.end_char]]
                    /\ mine[1].message = "Translation key '" \o u.key \o "' not found"

C9_Witness ==
    /\ DiagComputed
    /\ Len(DiagUsages) >= 2
    /\ ~key_exists(Unwrap(pin.store), DiagUsages[2].key)
    /\ key_exists(Unwrap(pin.store), DiagUsages[1].key)
    /\ Len(Unwrap(pout)) >= 2

\* the source-locale value of a usage's key, if it has one
SourceValue(u) ==
    LET tr == Unwrap(pin.store).tr
    IN  IF pin.source_locale \in DOMAIN tr /\ u.key \in DOMAIN tr[pin.source_locale]
        THEN Some(tr[pin.source_locale][u.key])
        ELSE None

\* C10: a found usage whose source-locale value begins and ends with "_"
\* and is longer than 2 gets exactly one diagnostic, raw-translation with
\* severity WARNING, and no incomplete-translation one, whatever the other
\* locales hold; a value "_" or "__" gets no raw-translation diagnostic.
C10_RawPlaceholderDiagnostic ==
    DiagComputed =>
        \A j \in 1..Len(DiagUsages) :
            LET u == DiagUsages[j]
                mine == DiagnosticsAt(u)
                v == SourceValue(u)
            IN  IsSome(v) =>
                    LET s == Unwrap(v)
                    IN  /\ (Len(s) > 2 /\ SubSeq(s, 1, 1) = "_"
                            /\ SubSeq(s, Len(s), Len(s)) = "_") =>
                               /\ Len(mine) = 1
                               /\ mine[1].code = "raw-translation"
                               /\ mine[1].severity = "WARNING"
                        /\ s \in {"_", "__"} =>
                               \A k \in 1..Len(mine) : mine[k].code # "raw-translation"

C10_Witness ==
    /\ DiagComputed
    /\ \E j \in 1..Len(DiagUsages) :
           /\ IsSome(SourceValue(DiagUsages[j]))
           /\ Unwrap(SourceValue(DiagUsages[j])) = "_bye_"
           /\ Len(get_missing_locales(Unwrap(pin.store), DiagUsages[j].key)) > 0
    /\ \E j \in 1..Len(DiagUsages) :
           /\ IsSome(SourceValue(DiagUsages[j]))
           /\ Unwrap(SourceValue(DiagUsages[j])) = "__"

----------------------------------------------------------------------------
(* Sessions after the workspace load: initialize has returned, the given   *)
(* documents are open, and the workers 1..NumHandlers serve one request    *)
(* each, concurrently.                                                     *)

LoadedConfig == load_from_workspace(WorkspaceRoot)

LoadedStoreOn(files) ==
    Some(scan_and_load(WorkspaceRoot, LoadedConfig.locale_paths, files))

LoadedStore == LoadedStoreOn(InitialDisk)

Workers == 1..NumHandlers

\* the state initialize leaves for a client with every capability
SessionLoadedOn(docs, files) ==
    /\ config = LoadedConfig
    /\ documents = docs
    /\ translation_store = LoadedStoreOn(files)
    /\ key_finder = KeyFinderNew(LoadedConfig.function_patterns)
    /\ workspace_root = Some(WorkspaceRoot)
    /\ caps = [inlay_dyn |-> TRUE, inlay_refresh |-> TRUE,
               watch_dyn |-> TRUE, watch_rel |-> TRUE]
    /\ disk = files
    /\ rheld = [h \in Handlers |-> {}]
    /\ wheld = [h \in Handlers |-> {}]
    /\ pc = [h \in Handlers |-> IF h = 0 THEN "done" ELSE "idle"]
    /\ req = [h \in Handlers |->
                 IF h = 0
                 THEN [kind |-> "initialize",
                       caps |-> CHOOSE c \in ClientCaps :
                                    watched_files_relative_pattern_support(c),
                       root_path |-> Some(WorkspaceRoot)]
                 ELSE NoReq]
    /\ loc = [h \in Handlers |->
                 IF h = 0
                 THEN [NoLoc EXCEPT !.config = Some(LoadedConfig),
                                    !.new_store = LoadedStoreOn(files)]
                 ELSE NoLoc]
    /\ out = [h \in Handlers |-> IF h = 0 THEN <<[call |-> "log_message"]>> ELSE << >>]
    /\ init_seen = TRUE
    /\ pin = NoPure
    /\ pout = None

SessionLoaded(docs) == SessionLoadedOn(docs, InitialDisk)

OneOpenDocument == [u \in {SrcUriA} |-> [content |-> TextTwo, version |-> 1]]

\* readers of the catalog next to reloads, with the locale file edited
InitReload == SessionLoaded(OneOpenDocument)

StartReader(h) ==
    \/ StartDidChange(h, {SrcUriA}, {<<TextTwo>>}, {1})
    \/ StartHover(h, {SrcUriA}, QueryPositions)
    \/ StartCompletion(h, {SrcUriA}, QueryPositions)
    \/ StartGotoDefinition(h, {SrcUriA}, QueryPositions)
    \/ StartInlayHint(h, {SrcUriA}, QueryRanges)

NextReload ==
    \/ \E h \in Workers :
           \/ StartReader(h) \/ DidChangeWrite(h) \/ DidChangeDiagnose(h)
           \/ DiagnoseStep(h) \/ QueryStep(h)
           \/ StartDidSave(h, {LocaleUri}) \/ NotifyStep(h) \/ ReloadStep(h)
    \/ EditLocaleFile

SpecReload == InitReload /\ [][NextReload]_vars

\* concurrent edits of one document
InitEdits == SessionLoaded(OneOpenDocument)

NextEdits ==
    \E h \in Workers :
        \/ StartDidOpen(h, {SrcUriA}, SessionTexts, {1})
        \/ StartDidChange(h, {SrcUriA}, ChangeLists, {1})
        \/ DidOpenWrite(h) \/ DidOpenDiagnose(h)
        \/ DidChangeWrite(h) \/ DidChangeDiagnose(h)
        \/ DiagnoseStep(h)

SpecEdits == InitEdits /\ [][NextEdits]_vars

----------------------------------------------------------------------------
(* Properties of the session *)

HasCall(h, name) == \E j \in 1..Len(out[h]) : out[h][j].call = name

\* positions at which the handler is about to make an outbound client call
CallPcs == {"iw_log", "in_log", "ri_call", "rw_call", "dd_publish", "rt_log",
            "rih_call"}

\* positions inside compute_diagnostics after the store was looked at
AfterStoreRead == {"cd_config", "cd_loop", "dd_publish"}

\* positions inside reload_translations and refresh_inlay_hints
ReloadPcs == {"rt_root", "rt_config", "rt_scan", "rt_log", "rt_publish",
              "rih_flag", "rih_call"}

\* C1: workspace load is one logical update: a compute_diagnostics that has
\* read the key finder and the store (and the config) sees all of them from
\* before the load or all of them from the load.
C1_LoadIsOneUpdate ==
    \A h \in Handlers :
        (pc[h] \in AfterStoreRead /\ IsSome(loc[h].kf)) =>
            LET kf_new == Unwrap(loc[h].kf) = KeyFinderNew(LoadedConfig.function_patterns)
                store_new == IsSome(loc[h].store)
                cfg_read == loc[h].source_locale # ""
                cfg_new == loc[h].source_locale = LoadedConfig.source_locale
            IN  /\ kf_new = store_new
                /\ cfg_read => (cfg_new = store_new)

\* C3: a save or watched-files notification that triggers the reload
\* pipeline publishes the catalog, then refreshes the hints, then publishes
\* diagnostics for every open document.
C3_ReloadThenRediagnose ==
    \A h \in Handlers :
        (/\ pc[h] = "done"
         /\ req[h].kind \in {"did_save", "did_change_watched_files"}
         /\ HasCall(h, "(translation_store written)")) =>
            \A u \in DOMAIN documents :
                \E i, j \in 1..Len(out[h]) :
                    /\ i < j
                    /\ out[h][i].call = "(translation_store written)"
                    /\ out[h][j].call = "publish_diagnostics"
                    /\ out[h][j].uri = u

\* C4: no outbound client call is made by a handler that holds a write guard.
C4_NoCallUnderWriteGuard ==
    \A h \in Handlers : pc[h] \in CallPcs => wheld[h] = {}

C4_Witness ==
    \E h \in Handlers :
        /\ pc[h] = "dd_publish"
        /\ req[h].kind \in {"did_open", "did_change"}
        /\ req[h].uri \in DOMAIN documents
        /\ documents[req[h].uri].content = loc[h].content

\* C6: a step of reload_translations changes no slot but translation_store,
\* and with no workspace root the reload ends at once: nothing is scanned,
\* stored, logged or refreshed.
C6_ReloadWritesOnlyCatalog ==
    [][\A h \in Handlers :
          (pc[h] \in ReloadPcs /\ pc'[h] # pc[h]) =>
              /\ UNCHANGED <<config, key_finder, workspace_root, documents, caps>>
              /\ (pc[h] # "rt_publish") => UNCHANGED translation_store
              /\ (pc[h] = "rt_config" /\ ~IsSome(loc[h].root)) =>
                     /\ pc'[h] \notin ReloadPcs
                     /\ UNCHANGED <<translation_store, out, disk>>]_vars

C6_Witness ==
    \E h \in Handlers :
        /\ req[h].kind = "execute_command"
        /\ pc[h] = "rd_documents"
        /\ ~IsSome(loc[h].root)
        /\ IsSome(translation_store)

\* the handler's calls and catalog publications, its file writes left out
Effects(h) == SelectSeq(out[h], LAMBDA e : e.call # "(file written)")

\* C7 as stated: every execution of the create-key command ends with a
\* catalog re-scan and publication followed by re-diagnosis.
C7_AlwaysReloads ==
    \A h \in Handlers :
        (/\ pc[h] = "done"
         /\ req[h].kind = "execute_command"
         /\ req[h].command = CreateKeyCommand) =>
            /\ HasCall(h, "(translation_store written)")
            /\ loc[h].e >= 1

\* C7 amended: an execution with a string key argument that finds the
\* catalog loaded ends with reload_translations and then
\* re_diagnose_open_documents: with a known root the catalog is logged and
\* published and the hints refreshed if supported, then diagnostics are
\* published for each document that was open, in order, and nothing else.
C7_ValidCommandReloads ==
    \A h \in Handlers :
        (/\ pc[h] = "done"
         /\ req[h].kind = "execute_command"
         /\ req[h].command = CreateKeyCommand
         /\ IsSome(KeyArgument(req[h].arguments))
         /\ loc[h].f >= 1) =>
            LET ev == Effects(h)
                n == Len(loc[h].entries)
                r == IF ~IsSome(loc[h].root) THEN 0
                     ELSE IF caps.inlay_refresh THEN 3 ELSE 2
            IN  /\ loc[h].e = n + 1
                /\ Len(ev) = r + n
                /\ IsSome(loc[h].root) =>
                       /\ ev[1].call = "log_message"
                       /\ ev[2].call = "(translation_store written)"
                       /\ caps.inlay_refresh => ev[3].call = "inlay_hint_refresh"
                /\ \A j \in 1..n :
                       /\ ev[r + j].call = "publish_diagnostics"
                       /\ ev[r + j].uri = loc[h].entries[j].uri

C7_Witness ==
    \E h \in Handlers :
        /\ pc[h] = "done"
        /\ req[h].kind = "execute_command"
        /\ IsSome(loc[h].root)
        /\ Len(loc[h].entries) >= 1
        /\ loc[h].files_written >= 1

\* C8: while the catalog is not loaded every request ends with an empty or
\* absent result: published diagnostics are the empty list, the response
\* carries nothing, and no locale file was written.
C8_NothingWithoutCatalog ==
    \A h \in Handlers :
        (pc[h] = "done" /\ ~IsSome(translation_store)) =>
            /\ loc[h].result = None
            /\ \A j \in 1..Len(out[h]) :
                   /\ out[h][j].call # "(file written)"
                   /\ out[h][j].call = "publish_diagnostics" =>
                          out[h][j].diagnostics = << >>

C8_Witness ==
    \E h \in Handlers :
        /\ pc[h] = "done"
        /\ ~IsSome(translation_store)
        /\ req[h].kind = "did_open"
        /\ Len(loc[h].found_keys) > 0
        /\ HasCall(h, "publish_diagnostics")

\* the content a did_open or did_change handler writes into the cache
WrittenContent(h) ==
    IF req[h].kind = "did_open" THEN req[h].text
    ELSE req[h].changes[Len(req[h].changes)]

\* positions inside diagnose_document
DiagnosePcs == {"cd_key_finder", "cd_store", "cd_config", "cd_loop", "dd_publish"}

\* C2: a handler reads one catalog snapshot: while it holds the store guard
\* the live catalog is the one it saw when it took the guard, and what it
\* returns or publishes is the provider's function of that one catalog.
C2_OneCatalogSnapshot ==
    \A h \in Handlers :
        /\ "translation_store" \in rheld[h] => translation_store = loc[h].store
        /\ (pc[h] = "dd_publish" /\ IsSome(loc[h].store)) =>
               loc[h].diagnostics =
                   compute_diagnostics(Unwrap(loc[h].kf), loc[h].store,
                                       loc[h].source_locale, loc[h].content)
        /\ (pc[h] = "done" /\ IsSome(loc[h].store)) =>
               /\ req[h].kind = "hover" =>
                      loc[h].result = get_hover_content(loc[h].store, config,
                                                        loc[h].found_keys[1].key)
               /\ req[h].kind = "completion" =>
                      LET completions == get_completions(loc[h].store, config,
                                                         loc[h].prefix)
                      IN  loc[h].result = IF Len(completions) = 0 THEN None
                                          ELSE Some(completions)
               /\ req[h].kind = "goto_definition" =>
                      loc[h].result = DefinitionResponse(get_definition_locations(
                          loc[h].store, config, loc[h].found_keys[1].key))
               /\ req[h].kind = "inlay_hint" =>
                      loc[h].result = Some(InlayHints(Unwrap(loc[h].store),
                          loc[h].source_locale, loc[h].content, req[h].range,
                          loc[h].found_keys))

\* a diagnostics pass is between its two usages while a reload waits to
\* publish a catalog that differs from the one the pass reads
C2_Witness ==
    \E h, g \in Handlers :
        /\ pc[h] = "cd_loop"
        /\ loc[h].i = 2
        /\ "translation_store" \in rheld[h]
        /\ pc[g] = "rt_publish"
        /\ loc[g].new_store # translation_store

\* C5: a did_open or did_change handler diagnoses the content it wrote: the
\* cache holds that content when the handler leaves its write block, the
\* diagnosis runs on it, and the one publication the handler makes carries
\* the diagnostics of that content for the handler's URI.
C5_DiagnosesWrittenContent ==
    \A h \in Handlers :
        req[h].kind \in {"did_open", "did_change"} =>
            /\ pc[h] \in {"do_diagnose", "dc_diagnose"} =>
                   /\ req[h].uri \in DOMAIN documents
                   /\ documents[req[h].uri].content = WrittenContent(h)
            /\ pc[h] \in DiagnosePcs =>
                   /\ loc[h].content = WrittenContent(h)
                   /\ loc[h].uri = req[h].uri
            /\ (pc[h] = "done" /\ (req[h].kind = "did_open" \/ Len(req[h].changes) > 0)) =>
                   out[h] = <<[call |-> "publish_diagnostics", uri |-> req[h].uri,
                               diagnostics |->
                                   compute_diagnostics(key_finder, translation_store,
                                       config.source_locale, WrittenContent(h))]>>

\* a handler is about to publish for its content after another handler has
\* replaced the cached content of the same document
C5_Witness ==
    \E h \in Handlers :
        /\ req[h].kind \in {"did_open", "did_change"}
        /\ pc[h] = "dd_publish"
        /\ documents[req[h].uri].content # loc[h].content

\* the locales of the catalog that lack the key of a usage
LackingLocales(u) ==
    {l \in DOMAIN Unwrap(pin.store).tr : u.key \notin DOMAIN Unwrap(pin.store).tr[l]}

\* the usage's key exists and its source-locale value is no raw placeholder
PlainUsage(u) ==
    /\ LackingLocales(u) # DOMAIN Unwrap(pin.store).tr
    /\ IsSome(SourceValue(u)) =>
           LET s == Unwrap(SourceValue(u))
           IN  ~(Len(s) > 2 /\ SubSeq(s, 1, 1) = "_" /\ SubSeq(s, Len(s), Len(s)) = "_")

\* the codes of a set of at most two locales, ascending, separated by ", "
LocaleListing(S) ==
    IF Cardinality(S) = 1 THEN CHOOSE l \in S : TRUE
    ELSE LET a == CHOOSE l \in S : \A m \in S \ {l} : StrLess(l, m)
             b == CHOOSE l \in S : l # a
         IN  a \o ", " \o b

----------------------------------------------------------------------------
(* Capability negotiation on its own: initialize with every shape of       *)
(* client capabilities and every workspace, then initialized, next to a    *)
(* worker that serves did_save (whose reload reads the refresh flag).      *)

NextInit ==
    \/ StartInitialize(0, AllClientCaps, AllRoots)
    \/ InitializeStep(0) \/ InitializedStep(0)
    \/ StartDidSave(1, SaveUris) \/ NotifyStep(1) \/ ReloadStep(1) \/ Finish(1)

SpecInit == Init /\ [][NextInit]_vars

\* what the client declared: a flag is declared true when every level down
\* to its field is present and the field is true
DeclaredFlags(c) ==
    [inlay_dyn |->
         /\ c.text_document # None
         /\ c.text_document[1].inlay_hint # None
         /\ c.text_document[1].inlay_hint[1].dynamic_registration = <<TRUE>>,
     inlay_refresh |->
         /\ c.workspace # None
         /\ c.workspace[1].inlay_hint # None
         /\ c.workspace[1].inlay_hint[1].refresh_support = <<TRUE>>,
     watch_dyn |->
         /\ c.workspace # None
         /\ c.workspace[1].did_change_watched_files # None
         /\ c.workspace[1].did_change_watched_files[1].dynamic_registration = <<TRUE>>,
     watch_rel |->
         /\ c.workspace # None
         /\ c.workspace[1].did_change_watched_files # None
         /\ c.workspace[1].did_change_watched_files[1].relative_pattern_support
                = <<TRUE>>]

AllFlagsFalse ==
    ~caps.inlay_dyn /\ ~caps.inlay_refresh /\ ~caps.watch_dyn /\ ~caps.watch_rel

\* positions of initialize at which it writes a flag
FlagWritePcs == {"init_inlay_dyn", "init_inlay_refresh", "init_watch_dyn", "init_watch_rel"}

\* C12: the four capability flags are false until initialize arrives; when
\* initialize returns each holds the value the client declared, false for
\* an absent field; and a step changes a flag only while initialize is at
\* one of its four flag writes, so no handler changes one afterwards.
C12_FlagsSetOnceAtInitialize ==
    /\ [](~init_seen => AllFlagsFalse)
    /\ []((req[0].kind = "initialize" /\ pc[0] = "done") =>
              caps = DeclaredFlags(req[0].caps))
    /\ [][caps' # caps => (req[0].kind = "initialize" /\ pc[0] \in FlagWritePcs)]_vars

\* initialize has returned for a client that declared inlay-hint dynamic
\* registration, refresh support false and nothing about watched files,
\* and a reload is about to read the refresh flag
C12_Witness ==
    /\ req[0].kind = "initialize"
    /\ pc[0] = "done"
    /\ req[0].caps.workspace # None
    /\ req[0].caps.workspace[1].did_change_watched_files = None
    /\ req[0].caps.workspace[1].inlay_hint = <<[refresh_support |-> <<FALSE>>]>>
    /\ caps.inlay_dyn
    /\ ~caps.inlay_refresh
    /\ pc[1] = "rih_flag"

\* the initialized handler has sent the registration with this id
Registered(id) ==
    \E k \in 1..Len(out[0]) :
        out[0][k].call = "register_capability" /\ out[0][k].id = id

InitializedDone == req[0].kind = "initialized" /\ pc[0] = "done"

\* a flag that is false means no registration of its kind at any point
NoRegistrationWithoutFlag ==
    req[0].kind = "initialized" =>
        /\ ~caps.inlay_dyn => ~Registered("intl-lens-inlay-hint")
        /\ ~caps.watch_dyn => ~Registered("intl-lens-watched-files")

\* C13 as stated: when initialized has finished, the inlay-hint registration
\* was sent iff inlay-hint dynamic registration was negotiated, and the
\* watcher registration was sent iff watched-files dynamic registration was
\* negotiated and the config lists at least one locale path.
C13_RegistersIffAnyLocalePath ==
    /\ NoRegistrationWithoutFlag
    /\ InitializedDone =>
           /\ Registered("intl-lens-inlay-hint") <=> caps.inlay_dyn
           /\ Registered("intl-lens-watched-files") <=>
                  (caps.watch_dyn /\ Len(config.locale_paths) > 0)

\* the locale path has a character other than a slash
NotOnlySlashes(path) ==
    \E k \in 1..Len(path) : SubSeq(path, k, k) \notin {"/", "\\"}

\* C13, amended: the watcher registration is sent iff watched-files dynamic
\* registration was negotiated and at least one configured locale path is
\* non-empty once its trailing slashes are trimmed; the inlay-hint
\* registration is sent iff inlay-hint dynamic registration was negotiated;
\* with a flag false the corresponding registration is never sent.
C13_RegistersIffUsableLocalePath ==
    /\ NoRegistrationWithoutFlag
    /\ InitializedDone =>
           /\ Registered("intl-lens-inlay-hint") <=> caps.inlay_dyn
           /\ Registered("intl-lens-watched-files") <=>
                  /\ caps.watch_dyn
                  /\ \E i \in 1..Len(config.locale_paths) :
                         NotOnlySlashes(config.locale_paths[i])

\* initialized has finished for a client that negotiated watched-files but
\* not inlay-hint dynamic registration, and only the watchers were sent
C13_Witness ==
    /\ InitializedDone
    /\ caps.watch_dyn
    /\ ~caps.inlay_dyn
    /\ Registered("intl-lens-watched-files")
    /\ ~Registered("intl-lens-inlay-hint")
    /\ Len(out[0][Len(out[0])].watchers) = 5

----------------------------------------------------------------------------
(* File notifications on their own: initialize in any workspace, and once  *)
(* it has returned a worker that serves did_save and                       *)
(* did_change_watched_files while the locale file is edited.               *)

NotesUri == <<"ws", "lang", "notes.txt">>
OddUri == <<"odd", "x.json">>

NotifyUris == SaveUris \cup {NotesUri, OddUri}

NotifyLists ==
    WatchedLists \cup {<<NotesUri, LocaleUri>>, <<LocaleUri, LocaleFilePath("fr")>>,
                       <<OddUri>>}

NextNotify ==
    \/ StartInitialize(0, ClientCaps, AllRoots)
    \/ InitializeStep(0)
    \/ (pc[0] = "done" /\ StartDidSave(1, NotifyUris))
    \/ (pc[0] = "done" /\ StartDidChangeWatchedFiles(1, NotifyLists))
    \/ NotifyStep(1) \/ ReloadStep(1) \/ Finish(1)
    \/ EditLocaleFile

SpecNotify == Init /\ [][NextNotify]_vars

\* the catalog publications a handler has made
RECURSIVE CountCalls(_, _)
CountCalls(calls, name) ==
    IF Len(calls) = 0 THEN 0
    ELSE (IF Head(calls).call = name THEN 1 ELSE 0) + CountCalls(Tail(calls), name)

Reloads(h) == CountCalls(out[h], "(translation_store written)")

\* the file name ends in one of the five locale extensions
RecognizedExtension(uri) ==
    \E ext \in {".json", ".yaml", ".yml", ".php", ".arb"} :
        LET name == uri[Len(uri)]
        IN  Len(name) >= Len(ext) /\ SubSeq(name, Len(name) - Len(ext) + 1, Len(name)) = ext

\* the URI is a file inside the locale path: "/" holds every file, another
\* locale path is a directory of the workspace root
InsideLocalePath(uri, locale_path) ==
    IF locale_path = "/" THEN TRUE
    ELSE /\ Len(uri) > Len(Unwrap(workspace_root)) + 1
         /\ SubSeq(uri, 1, Len(Unwrap(workspace_root)) + 1)
                = Unwrap(workspace_root) \o <<locale_path>>

TriggersReload(uri) ==
    /\ RecognizedExtension(uri)
    /\ IsSome(workspace_root)
    /\ \E i \in 1..Len(config.locale_paths) :
           InsideLocalePath(uri, config.locale_paths[i])

TriggersReloadUsable(uri) ==
    /\ RecognizedExtension(uri)
    /\ IsSome(workspace_root)
    /\ \E i \in 1..Len(config.locale_paths) :
           /\ NotOnlySlashes(config.locale_paths[i])
           /\ InsideLocalePath(uri, config.locale_paths[i])

FileNotification(h) == req[h].kind \in {"did_save", "did_change_watched_files"}

\* C14 as stated: a finished did_save or did_change_watched_files has
\* reloaded once if one of its URIs is a file with a recognized extension
\* inside a configured locale path, and not at all otherwise; and the
\* catalog changes only in initialize or in the reload of a notification
\* with such a URI.
C14_ReloadIffInLocalePath ==
    /\ [](\A h \in Workers :
              (FileNotification(h) /\ pc[h] = "done") =>
                  Reloads(h) = IF \E k \in 1..Len(req[h].uris) :
                                       TriggersReload(req[h].uris[k])
                               THEN 1 ELSE 0)
    /\ [][translation_store' # translation_store =>
              \/ req[0].kind = "initialize" /\ pc[0] = "iw_store"
              \/ \E h \in Workers :
                     /\ FileNotification(h)
                     /\ \E k \in 1..Len(req[h].uris) : TriggersReload(req[h].uris[k])]_vars

\* C14, amended: the same with "inside a configured locale path that is
\* non-empty once its trailing slashes are trimmed".
C14_ReloadIffInUsableLocalePath ==
    /\ [](\A h \in Workers :
              (FileNotification(h) /\ pc[h] = "done") =>
                  Reloads(h) = IF \E k \in 1..Len(req[h].uris) :
                                       TriggersReloadUsable(req[h].uris[k])
                               THEN 1 ELSE 0)
    /\ [][translation_store' # translation_store =>
              \/ req[0].kind = "initialize" /\ pc[0] = "iw_store"
              \/ \E h \in Workers :
                     /\ FileNotification(h)
                     /\ \E k \in 1..Len(req[h].uris) :
                            TriggersReloadUsable(req[h].uris[k])]_vars

\* a watched-files notification with two locale files has finished with one
\* reload, which replaced the catalog after the locale file was edited
C14_Witness ==
    \E h \in Workers :
        /\ req[h].kind = "did_change_watched_files"
        /\ pc[h] = "done"
        /\ req[h].uris = <<LocaleUri, LocaleFilePath("fr")>>
        /\ Reloads(h) = 1
        /\ translation_store # loc[0].new_store

----------------------------------------------------------------------------
(* Overlapping reloads: the locale file is edited once, and then every     *)
(* worker serves one request: the did_save or the watched-files            *)
(* notification for that edit, or a did_change that reads the catalog.     *)

InitOverlap == SessionLoaded(OneOpenDocument)

NextOverlap ==
    \/ (disk = InitialDisk /\ EditLocaleFile)
    \/ \E h \in Workers :
           \/ (disk # InitialDisk /\ StartDidSave(h, {LocaleUri}))
           \/ (disk # InitialDisk /\ StartDidChangeWatchedFiles(h, {<<LocaleUri>>}))
           \/ NotifyStep(h) \/ ReloadStep(h)
           \/ StartDidChange(h, {SrcUriA}, {<<TextTwo>>}, {1})
           \/ DidChangeWrite(h) \/ DidChangeDiagnose(h) \/ DiagnoseStep(h)

SpecOverlap == InitOverlap /\ [][NextOverlap]_vars

\* the catalog one reload of the files on disk gives
SingleReload == Some([root |-> WorkspaceRoot, tr |-> disk])

\* C15: once every reload that was triggered by the edit has finished, the
\* live catalog is the catalog of a single reload of the edited files,
\* however the reloads interleaved; and a reader that holds the catalog
\* guard sees the live catalog, which is either the catalog of start-up or
\* the catalog of a single reload, never a mixture.
C15_OverlappingReloadsIdempotent ==
    /\ ((\E h \in Workers : Reloads(h) >= 1)
          /\ (\A h \in Workers : FileNotification(h) => pc[h] = "done")) =>
           translation_store = SingleReload
    /\ \A h \in Workers :
           "translation_store" \in rheld[h] =>
               /\ loc[h].store = translation_store
               /\ loc[h].store \in {LoadedStore, SingleReload}

\* one reload has published the catalog of the edited file while another
\* reload for the same edit has scanned and not yet published
C15_Witness ==
    \E h, g \in Workers :
        /\ h # g
        /\ FileNotification(h)
        /\ FileNotification(g)
        /\ Reloads(h) = 1
        /\ pc[g] \in {"rt_log", "rt_publish"}
        /\ translation_store = SingleReload
        /\ translation_store # LoadedStore

----------------------------------------------------------------------------
(* The create-key command on its own: a loaded session whose locale path   *)
(* holds de.yaml, en.json and fr.json, a worker that serves one            *)
(* execute_command request of any shape, the other workers with one        *)
(* malformed request each, and somebody who overwrites fr.json with text   *)
(* that is not a JSON object.                                              *)

CommandDisk ==
    [l \in {"de", "en", "fr"} |->
        IF l = "en" THEN [k \in {"hello"} |-> "Hi"] ELSE [k \in {} |-> "Hi"]]

InitCommand == SessionLoadedOn(OneOpenDocument, CommandDisk)

CorruptLocaleFile ==
    /\ disk["fr"] # NotAnObject
    /\ disk' = [disk EXCEPT !["fr"] = NotAnObject]
    /\ UNCHANGED <<config, documents, translation_store, key_finder,
                   workspace_root, caps, Locks, pc, req, loc, out, init_seen,
                   pin, pout>>

MalformedRequests ==
    {c \in CommandRequests :
         c.command # CreateKeyCommand \/ c.arguments \in {<< >>, <<NumArg>>}}

NextCommand ==
    \/ StartExecuteCommand(1, CommandRequests)
    \/ CommandStep(1) \/ ReloadStep(1) \/ DiagnoseStep(1)
    \/ \E h \in Workers \ {1} : StartExecuteCommand(h, MalformedRequests)
    \/ CorruptLocaleFile

SpecCommand == InitCommand /\ [][NextCommand]_vars

\* the request names the create-key command and its first argument is a string
WellFormedCommand(h) ==
    /\ req[h].kind = "execute_command"
    /\ req[h].command = "intl-lens.createRawTranslationKey"
    /\ Len(req[h].arguments) > 0
    /\ req[h].arguments[1].type = "string"

FilesWritten(h) == CountCalls(out[h], "(file written)")

\* the handler is inside, or just behind, its loop over the locale files
InFileLoop(h) == pc[h] \in {"ec_read", "ec_write"}
BehindFileLoop(h) == WellFormedCommand(h) /\ pc[h] = "rt_root"

\* C16: in the create-key command a file whose extension is not json is
\* neither read nor written; a step writes a file only with the content the
\* insertion engine returned for what was read from it; after the loop
\* every file has been considered, whatever failed on the way; and the
\* written count is the number of writes that succeeded, at most the number
\* of files.
C16_BestEffortWrites ==
    /\ [](\A h \in Workers :
              /\ pc[h] = "ec_write" => FileExtension(loc[h].files[loc[h].f]) = "json"
              /\ \A k \in 1..Len(out[h]) :
                     out[h][k].call = "(file written)" =>
                         FileExtension(out[h][k].file) = "json"
              /\ (InFileLoop(h) \/ BehindFileLoop(h)) =>
                     /\ loc[h].files_written = FilesWritten(h)
                     /\ loc[h].files_written <= Len(loc[h].files)
              /\ BehindFileLoop(h) => loc[h].f = Len(loc[h].files) + 1)
    /\ [][\A h \in Workers :
              FilesWritten(h)' > FilesWritten(h) =>
                  LET l == loc[h].files[loc[h].f]
                      key == req[h].arguments[1].str
                      result == InsertKey(Unwrap(loc[h].file_content), key,
                                          "_" \o key \o "_")
                  IN  /\ pc[h] = "ec_write"
                      /\ IsSome(result)
                      /\ disk' = [disk EXCEPT ![l] = Unwrap(result)]]_vars

\* the loop has ended with one file written, fr.json, after de.yaml was
\* skipped and en.json failed
C16_Witness ==
    \E h \in Workers :
        /\ BehindFileLoop(h)
        /\ loc[h].files = <<"de", "en", "fr">>
        /\ loc[h].files_written = 1
        /\ out[h] = <<[call |-> "(file written)", file |-> "fr"]>>
        /\ "bye" \notin DOMAIN disk["en"]

\* C17: an execute_command request with another command name, or with a
\* missing or non-string first argument, has returned after its first step
\* with no outbound call, no catalog publication, no file written and no
\* local state, and that step leaves the files, the catalog, the documents
\* and the config as they were.
C17_MalformedCommandNoEffect ==
    /\ [](\A h \in Workers :
              (req[h].kind = "execute_command" /\ ~WellFormedCommand(h)) =>
                  /\ pc[h] = "done"
                  /\ out[h] = << >>
                  /\ loc[h] = NoLoc)
    /\ [][\A h \in Workers :
              (req'[h] # req[h] /\ req'[h].kind = "execute_command"
                 /\ ~WellFormedCommand(h)') =>
                  UNCHANGED <<disk, translation_store, documents, config>>]_vars

\* a request with a number as its first argument has returned next to a
\* well-formed command that is writing files
C17_Witness ==
    \E h, g \in Workers :
        /\ req[h].kind = "execute_command"
        /\ req[h].command = "intl-lens.createRawTranslationKey"
        /\ Len(req[h].arguments) = 1
        /\ req[h].arguments[1].type = "number"
        /\ pc[h] = "done"
        /\ pc[g] = "ec_write"

----------------------------------------------------------------------------
(* code_action, lines 958-1002.  Diagnostic.code is an                     *)
(* Option<NumberOrString>, written with the JSON values StrArg and NumArg. *)

\* str::strip_prefix and str::strip_suffix
strip_prefix(s, p) ==
    IF StartsWith(s, p) THEN Some(SubSeq(s, Len(p) + 1, Len(s))) ELSE None

strip_suffix(s, p) ==
    IF EndsWith(s, p) THEN Some(SubSeq(s, 1, Len(s) - Len(p))) ELSE None

\* as is_missing, but any string code passes
IsAnyStringCode(diagnostic) ==
    IsSome(diagnostic.code) /\ Unwrap(diagnostic.code).type = "string"

\* lines 962-966
is_missing(diagnostic) ==
    /\ IsSome(diagnostic.code)
    /\ Unwrap(diagnostic.code).type = "string"
    /\ Unwrap(diagnostic.code).str = "missing-translation"

\* lines 972-976
MessageKey(diagnostic) ==
    AndThen(strip_prefix(diagnostic.message, "Translation key '"),
            LAMBDA s : strip_suffix(s, "' not found"))

\* lines 982-992
QuickFix(diagnostic, key) ==
    [title       |-> "Create raw translation key '" \o key \o "'",
     kind        |-> "quickfix",
     diagnostics |-> <<diagnostic>>,
     command     |-> [title     |-> "Create raw translation key '" \o key \o "'",
                      command   |-> CreateKeyCommand,
                      arguments |-> <<StrArg(key)>>]]

\* the loop of lines 961-995
RECURSIVE CodeActions(_)
CodeActions(diagnostics) ==
    IF Len(diagnostics) = 0 THEN << >>
    ELSE LET diagnostic == Head(diagnostics)
             key == MessageKey(diagnostic)
         IN  (IF is_missing(diagnostic) /\ IsSome(key)
              THEN <<QuickFix(diagnostic, Unwrap(key))>>
              ELSE << >>) \o CodeActions(Tail(diagnostics))

code_action(diagnostics) ==
    LET actions == CodeActions(diagnostics)
    IN  IF Len(actions) = 0 THEN None ELSE Some(actions)

\* a diagnostic of compute_diagnostics as the client sends it back
Published(d) == [d EXCEPT !.code = Some(StrArg(d.code))]

\* largest number of diagnostics in one code_action request of the client
MaxDiagnostics == 2

\* keys of the usages that are diagnosed and sent back
ActionKeys == {"hello", "", "it's", "a' not found"}

ActionContents ==
    UNION {[1..n -> [fn : {"t"}, key : ActionKeys]] : n \in 0..MaxUsages}

ActionStores ==
    {[root |-> WorkspaceRoot, tr |-> [l \in {"en"} |-> m]] :
         m \in {[k \in {} |-> "Hi"], [k \in {"hello"} |-> "Hi"]}}

\* diagnostics a client can send that compute_diagnostics did not make
ClientDiagnostic(code, message) ==
    [range    |-> [start |-> [line |-> 0, character |-> 3],
                   end   |-> [line |-> 0, character |-> 8]],
     severity |-> "WARNING", code |-> code, source |-> "i18n", message |-> message]

ClientDiagnostics ==
    {ClientDiagnostic(c, m) :
         c \in {None, Some(NumArg), Some(StrArg("raw-translation")),
                Some(StrArg("missing-translation"))},
         m \in {"Translation key 'hello' not found", "Translation key ' not found",
                "Translation 'hello' missing in: fr", "translation key 'hello' not found"}}

InitAction ==
    /\ SessionInit
    /\ pout = None
    /\ \/ pin \in [op : {"compute_diagnostics"}, kf : {KeyFinderNew({"t"})},
                   store : {Some(st) : st \in ActionStores},
                   source_locale : {"en"}, content : ActionContents]
       \/ pin \in [op : {"code_action"}, origin : {"client"},
                   diagnostics : UNION {[1..n -> ClientDiagnostics] :
                                            n \in 0..MaxDiagnostics}]

\* the client sends the published diagnostics back in a code_action request
SendBackDiagnostics ==
    /\ pin.op = "compute_diagnostics"
    /\ IsSome(pout)
    /\ pin' = [op |-> "code_action", origin |-> "computed",
               diagnostics |-> [j \in 1..Len(Unwrap(pout)) |-> Published(Unwrap(pout)[j])],
               usages |-> find_keys(pin.kf, pin.content),
               store |-> Unwrap(pin.store)]
    /\ pout' = None
    /\ UNCHANGED sessionVars

ApplyCodeAction ==
    /\ pin.op = "code_action"
    /\ pout = None
    /\ pout' = Some(code_action(pin.diagnostics))
    /\ UNCHANGED <<sessionVars, pin>>

NextAction == ApplyComputeDiagnostics \/ SendBackDiagnostics \/ ApplyCodeAction

SpecAction == InitAction /\ [][NextAction]_vars

\* the actions code_action returned, and those among them offered for the
\* j-th diagnostic of the request
ActionsReturned == IF IsSome(Unwrap(pout)) THEN Unwrap(Unwrap(pout)) ELSE << >>

ActionsFor(j) ==
    SelectSeq(ActionsReturned, LAMBDA a : a.diagnostics = <<pin.diagnostics[j]>>)

\* the message reads  Translation key '<key>' not found  for some key
HasMissingKeyForm(message) ==
    /\ Len(message) >= 28
    /\ SubSeq(message, 1, 17) = "Translation key '"
    /\ SubSeq(message, Len(message) - 10, Len(message)) = "' not found"

HasMissingCode(d) == d.code = <<[type |-> "string", str |-> "missing-translation"]>>

\* C18: when the diagnostics computed for a text are sent back to
\* code_action, every usage of a key k that the catalog lacks has exactly
\* one quick-fix, and its command is intl-lens.createRawTranslationKey with
\* the one argument k; and whatever the request holds, the response is the
\* list of quick-fixes of the diagnostics with code missing-translation and
\* a message of the form  Translation key '<key>' not found, absent when
\* there is none: a diagnostic with another code or another message has no
\* action.
C18_DiagnosticQuickFixRoundTrip ==
    (pin.op = "code_action" /\ IsSome(pout)) =>
        /\ pin.origin = "computed" =>
               \A u \in 1..Len(pin.usages) :
                   (\A l \in DOMAIN pin.store.tr :
                        pin.usages[u].key \notin DOMAIN pin.store.tr[l]) =>
                       \E j \in 1..Len(pin.diagnostics) :
                           /\ pin.diagnostics[j].range.start.line = pin.usages[u].line
                           /\ Len(ActionsFor(j)) = 1
                           /\ ActionsFor(j)[1].command.command
                                  = "intl-lens.createRawTranslationKey"
                           /\ ActionsFor(j)[1].command.arguments
                                  = <<[type |-> "string", str |-> pin.usages[u].key]>>
        /\ \A j \in 1..Len(pin.diagnostics) :
               (~HasMissingCode(pin.diagnostics[j])
                  \/ ~HasMissingKeyForm(pin.diagnostics[j].message)) =>
                   Len(ActionsFor(j)) = 0
        /\ Len(ActionsReturned) =
               Cardinality({j \in 1..Len(pin.diagnostics) :
                                /\ HasMissingCode(pin.diagnostics[j])
                                /\ HasMissingKeyForm(pin.diagnostics[j].message)})
        /\ Unwrap(pout) = None <=> Len(ActionsReturned) = 0

\* the diagnostics of the usages of  a' not found  and of the empty key
\* came back and each got its quick-fix
C18_Witness ==
    /\ pin.op = "code_action"
    /\ IsSome(pout)
    /\ pin.origin = "computed"
    /\ Len(pin.usages) = 2
    /\ pin.usages[1].key = "a' not found"
    /\ pin.usages[2].key = ""
    /\ Len(ActionsReturned) = 2
    /\ ActionsReturned[1].command.arguments = <<[type |-> "string", str |-> "a' not found"]>>
    /\ ActionsReturned[2].command.arguments = <<[type |-> "string", str |-> ""]>>

(***************************************************************************)
(* The JSON insertion engine, lines 1174-1404.  A document is its text; the *)
(* offsets are byte offsets counted from 0 and the texts are ASCII.        *)
(***************************************************************************)

\* the character at an offset, and no character past the end
CharAt(s, off) == IF off < Len(s) THEN SubSeq(s, off + 1, off + 1) ELSE ""

\* &s[off..] and &s[..off]
SliceFrom(s, off) == SubSeq(s, off + 1, Len(s))
SliceTo(s, off) == SubSeq(s, 1, off)

\* char::is_whitespace on the characters of the texts here
IsWhitespace(c) == c \in {" ", "\t", "\n", "\r"}

\* str::find, from an offset
FindFrom(s, pattern, at) ==
    LET hits == {j \in at..(Len(s) - Len(pattern)) :
                     SubSeq(s, j + 1, j + Len(pattern)) = pattern}
    IN  IF hits = {} THEN None ELSE Some(CHOOSE j \in hits : \A k \in hits : j <= k)

RECURSIVE trim_start(_)
trim_start(l) ==
    IF Len(l) > 0 /\ IsWhitespace(CharAt(l, 0)) THEN trim_start(SliceFrom(l, 1)) ELSE l

RECURSIVE trim_end(_)
trim_end(l) ==
    IF Len(l) > 0 /\ IsWhitespace(CharAt(l, Len(l) - 1))
    THEN trim_end(SliceTo(l, Len(l) - 1))
    ELSE l

trim(l) == trim_end(trim_start(l))

\* str::lines: the pieces between line feeds, each without its carriage
\* return, and no empty piece after a final line feed
RECURSIVE Lines(_)
Lines(s) ==
    IF s = "" THEN << >>
    ELSE LET nl == FindFrom(s, "\n", 0)
         IN  IF IsSome(nl)
             THEN LET piece == SliceTo(s, Unwrap(nl))
                  IN  <<IF EndsWith(piece, "\r")
                        THEN SliceTo(piece, Len(piece) - 1)
                        ELSE piece>> \o Lines(SliceFrom(s, Unwrap(nl) + 1))
             ELSE <<s>>

\* join("\n")
RECURSIVE JoinLines(_)
JoinLines(ls) ==
    IF Len(ls) = 0 THEN ""
    ELSE IF Len(ls) = 1 THEN ls[1]
    ELSE ls[1] \o "\n" \o JoinLines(Tail(ls))

\* str::repeat
RECURSIVE Repeat(_, _)
Repeat(s, n) == IF n = 0 THEN "" ELSE s \o Repeat(s, n - 1)

\* key.split('.'), line 1178
RECURSIVE SplitKey(_)
SplitKey(key) ==
    LET dot == FindFrom(key, ".", 0)
    IN  IF IsSome(dot)
        THEN <<SliceTo(key, Unwrap(dot))>> \o SplitKey(SliceFrom(key, Unwrap(dot) + 1))
        ELSE <<key>>

(* serde_json::from_str, line 1176: the JSON grammar over objects, arrays, *)
(* strings, integers and the three literals.  A step of the parser gives   *)
(* the value read and the offset after it.                                 *)

JString(s) == [type |-> "string", str |-> s]
JObject(m) == [type |-> "object", members |-> m]
JArray(e) == [type |-> "array", items |-> e]
JNumber(d) == [type |-> "number", digits |-> d]
JLiteral(w) == [type |-> "literal", word |-> w]

Failed == [ok |-> FALSE, next |-> 0, val |-> << >>]
Read(v, n) == [ok |-> TRUE, next |-> n, val |-> v]

RECURSIVE SkipWhitespace(_, _)
SkipWhitespace(s, at) ==
    IF at < Len(s) /\ IsWhitespace(CharAt(s, at)) THEN SkipWhitespace(s, at + 1) ELSE at

\* the rest of a string after its opening quote, escapes decoded
RECURSIVE StringBody(_, _, _)
StringBody(s, at, acc) ==
    LET c == CharAt(s, at)
        e == CharAt(s, at + 1)
    IN  IF at >= Len(s) THEN Failed
        ELSE IF c = "\"" THEN Read(acc, at + 1)
        ELSE IF c = "\\"
        THEN IF e \in {"\"", "\\", "/"} THEN StringBody(s, at + 2, acc \o e)
             ELSE IF e = "n" THEN StringBody(s, at + 2, acc \o "\n")
             ELSE IF e = "t" THEN StringBody(s, at + 2, acc \o "\t")
             ELSE IF e = "r" THEN StringBody(s, at + 2, acc \o "\r")
             ELSE Failed
        ELSE IF c \in {"\n", "\t", "\r"} THEN Failed
        ELSE StringBody(s, at + 1, acc \o c)

Digits == {"0", "1", "2", "3", "4", "5", "6", "7", "8", "9"}

RECURSIVE DigitsEnd(_, _)
DigitsEnd(s, at) == IF CharAt(s, at) \in Digits THEN DigitsEnd(s, at + 1) ELSE at

LiteralWords == <<"true", "false", "null">>

RECURSIVE ParseValue(_, _)
RECURSIVE ParseMembers(_, _, _)
RECURSIVE ParseElements(_, _, _)

ParseValue(s, from) ==
    LET at == SkipWhitespace(s, from)
        c == CharAt(s, at)
        inner == SkipWhitespace(s, at + 1)
        body == StringBody(s, at + 1, "")
        words == {w \in 1..Len(LiteralWords) : StartsWith(SliceFrom(s, at), LiteralWords[w])}
    IN  IF c = "{"
        THEN IF CharAt(s, inner) = "}" THEN Read(JObject(<< >>), inner + 1)
             ELSE ParseMembers(s, inner, << >>)
        ELSE IF c = "["
        THEN IF CharAt(s, inner) = "]" THEN Read(JArray(<< >>), inner + 1)
             ELSE ParseElements(s, inner, << >>)
        ELSE IF c = "\""
        THEN IF body.ok THEN Read(JString(body.val), body.next) ELSE Failed
        ELSE IF c \in Digits
        THEN Read(JNumber(SubSeq(s, at + 1, DigitsEnd(s, at))), DigitsEnd(s, at))
        ELSE IF words # {}
        THEN LET w == LiteralWords[CHOOSE i \in words : TRUE]
             IN  Read(JLiteral(w), at + Len(w))
        ELSE Failed

\* the members of an object from the quote of a key on; of two members with
\* one key the later one stays
ParseMembers(s, at, m) ==
    LET k == StringBody(s, at + 1, "")
        colon == SkipWhitespace(s, k.next)
        v == ParseValue(s, colon + 1)
        after == SkipWhitespace(s, v.next)
        members == [n \in DOMAIN m \cup {k.val} |-> IF n = k.val THEN v.val ELSE m[n]]
    IN  IF CharAt(s, at) # "\"" THEN Failed
        ELSE IF ~k.ok THEN Failed
        ELSE IF CharAt(s, colon) # ":" THEN Failed
        ELSE IF ~v.ok THEN Failed
        ELSE IF CharAt(s, after) = "}" THEN Read(JObject(members), after + 1)
        ELSE IF CharAt(s, after) = "," THEN ParseMembers(s, SkipWhitespace(s, after + 1), members)
        ELSE Failed

ParseElements(s, at, e) ==
    LET v == ParseValue(s, at)
        after == SkipWhitespace(s, v.next)
    IN  IF ~v.ok THEN Failed
        ELSE IF CharAt(s, after) = "]" THEN Read(JArray(Append(e, v.val)), after + 1)
        ELSE IF CharAt(s, after) = "," THEN ParseElements(s, after + 1, Append(e, v.val))
        ELSE Failed

\* a parser that takes every text for an empty object
AnyTextIsAnObject(content) == Some(JObject(<< >>))

\* a whole text is one value with white space around it
from_str(content) ==
    LET v == ParseValue(content, 0)
    IN  IF v.ok /\ SkipWhitespace(content, v.next) = Len(content)
        THEN Some(v.val)
        ELSE None

\* Value::as_object, line 1177
as_object(value) == IF value.type = "object" THEN Some(value.members) ELSE None

\* lines 1257-1277: the loop over the lines, from line i on
RECURSIVE IndentFrom(_, _, _)
IndentFrom(lines, i, min_indent) ==
    IF i > Len(lines) THEN UnwrapOr(min_indent, "  ")
    ELSE LET line == lines[i]
             stripped == trim_start(line)
             leading == SliceTo(line, Len(line) - Len(stripped))
         IN  IF stripped = "" THEN IndentFrom(lines, i + 1, min_indent)
             ELSE IF leading = "" THEN IndentFrom(lines, i + 1, min_indent)
             ELSE IF StartsWith(leading, "\t") THEN "\t"
             ELSE IF ~IsSome(min_indent) \/ Len(leading) < Len(Unwrap(min_indent))
             THEN IndentFrom(lines, i + 1, Some(leading))
             ELSE IndentFrom(lines, i + 1, min_indent)

\* lines 1255-1278
detect_indent_unit(content) == IndentFrom(Lines(content), 1, None)

\* lines 1310-1326: after the key, a colon and then an opening brace, with
\* nothing but white space around them
RECURSIVE ObjectOpen(_, _, _)
ObjectOpen(content, at, found_colon) ==
    LET ch == CharAt(content, at)
    IN  IF at >= Len(content) THEN None
        ELSE IF ch = ":" /\ ~found_colon THEN ObjectOpen(content, at + 1, TRUE)
        ELSE IF ch = "{" /\ found_colon THEN Some(at)
        ELSE IF IsWhitespace(ch) THEN ObjectOpen(content, at + 1, found_colon)
        ELSE None

\* as BraceStep, but a backslash does not guard the character after it
BraceStepNoEscape(st, ch) ==
    IF ch = "\"" THEN [st EXCEPT !.in_string = ~@]
    ELSE IF ch = "{" /\ ~st.in_string THEN [st EXCEPT !.depth = @ + 1]
    ELSE IF ch = "}" /\ ~st.in_string THEN [st EXCEPT !.depth = @ - 1]
    ELSE st

\* lines 1334-1349: what one character does to the depth and the two flags
BraceStep(st, ch) ==
    IF st.escape THEN [st EXCEPT !.escape = FALSE]
    ELSE IF ch = "\\" /\ st.in_string THEN [st EXCEPT !.escape = TRUE]
    ELSE IF ch = "\"" THEN [st EXCEPT !.in_string = ~@]
    ELSE IF ch = "{" /\ ~st.in_string THEN [st EXCEPT !.depth = @ + 1]
    ELSE IF ch = "}" /\ ~st.in_string THEN [st EXCEPT !.depth = @ - 1]
    ELSE st

\* lines 1333-1350 over the characters from `at` up to `end`: the scan
\* stops at the brace that brings the depth to 0, which st.at then names
RECURSIVE ScanBraces(_, _, _, _)
ScanBraces(content, at, end, st) ==
    IF at >= end \/ st.depth = 0 THEN st
    ELSE ScanBraces(content, at + 1, end,
                    [BraceStep(st, CharAt(content, at)) EXCEPT !.at = at])

\* lines 1329-1352: the brace that closes the one before `at`; the text is
\* scanned in stretches, so that the evaluation nests no deeper than a
\* stretch is long
RECURSIVE ObjectClose(_, _, _)
ObjectClose(content, at, st) ==
    IF st.depth = 0 THEN Some(st.at)
    ELSE IF at >= Len(content) THEN None
    ELSE ObjectClose(content, at + 16,
                     ScanBraces(content, at,
                                IF at + 16 < Len(content) THEN at + 16 ELSE Len(content),
                                st))

\* lines 1298-1353: the offsets of the braces of the object that follows the
\* first occurrence of "key_name" from search_from on
find_key_object_range(content, search_from, key_name) ==
    LET needle == "\"" \o key_name \o "\""
        key_abs == FindFrom(content, needle, search_from)
        open == ObjectOpen(content, Unwrap(key_abs) + Len(needle), FALSE)
        close == ObjectClose(content, Unwrap(open) + 1,
                            [depth |-> 1, in_string |-> FALSE, escape |-> FALSE,
                             at |-> Unwrap(open)])
    IN  IF ~IsSome(key_abs) THEN None
        ELSE IF ~IsSome(open) THEN None
        ELSE IF ~IsSome(close) THEN None
        ELSE Some(<<Unwrap(open), Unwrap(close)>>)

\* lines 1288-1293: the loop over the chain, from its i-th key on
RECURSIVE RangeFrom(_, _, _, _, _)
RangeFrom(content, key_chain, i, search_from, result) ==
    IF i > Len(key_chain) THEN result
    ELSE LET range == find_key_object_range(content, search_from, key_chain[i])
         IN  IF ~IsSome(range) THEN None
             ELSE RangeFrom(content, key_chain, i + 1, Unwrap(range)[1] + 1, range)

\* lines 1284-1294
find_nested_object_range(content, key_chain) == RangeFrom(content, key_chain, 1, 0, None)

\* lines 1367-1376: the index of the line that holds brace_offset
RECURSIVE BraceLineFrom(_, _, _, _)
BraceLineFrom(lines, i, cumulative, brace_offset) ==
    IF i > Len(lines) THEN IF Len(lines) = 0 THEN 0 ELSE Len(lines) - 1
    ELSE LET line_end == cumulative + Len(lines[i])
         IN  IF brace_offset >= cumulative /\ brace_offset <= line_end THEN i - 1
             ELSE BraceLineFrom(lines, i + 1, line_end + 1, brace_offset)

\* lines 1379-1387: the last line before brace_line that is not blank gets a
\* comma unless it ends with one or with an opening bracket
WithComma(lines, brace_line) ==
    LET before == {i \in 1..brace_line : trim(lines[i]) # ""}
        last == CHOOSE i \in before : \A j \in before : j <= i
        trimmed == trim(lines[last])
    IN  IF before = {} THEN lines
        ELSE IF ~EndsWith(trimmed, ",") /\ ~EndsWith(trimmed, "{") /\ ~EndsWith(trimmed, "[")
        THEN [lines EXCEPT ![last] = @ \o ","]
        ELSE lines

\* as has_trailing_newline, but the result always ends with a line feed
AlwaysTrailingNewline(content) == TRUE

\* line 1364
has_trailing_newline(content) == EndsWith(content, "\n")

\* lines 1358-1404: the entry goes in as whole lines before the line of the
\* brace; the result and the index of the first line put in
insert_text_before_offset(content, brace_offset, entry) ==
    LET brace_line == BraceLineFrom(Lines(content), 1, 0, brace_offset)
        lines == WithComma(Lines(content), brace_line)
        new_lines == SubSeq(lines, 1, brace_line) \o Lines(entry)
                         \o SubSeq(lines, brace_line + 1, Len(lines))
        result == JoinLines(new_lines) \o (IF has_trailing_newline(content) THEN "\n" ELSE "")
    IN  Some(<<result, brace_line>>)

\* the opening of an entry written without the space after its colon
KeyOpeningUnspaced(key) == "\"" \o key \o "\":\""

\* format!("\"{}\": \"", key), lines 1191 and 1248
KeyOpening(key) == "\"" \o key \o "\": \""

\* lines 1184-1192: the whole key as one entry before the last brace
FlatInsert(content, key, value, indent) ==
    LET entry == indent \o KeyOpening(key) \o value \o "\""
        brace_offset == RFind(content, "}")
        inserted == insert_text_before_offset(content, Unwrap(brace_offset), entry)
    IN  IF ~IsSome(brace_offset) THEN None
        ELSE IF ~IsSome(inserted) THEN None
        ELSE Some(<<Unwrap(inserted)[1], Unwrap(inserted)[2],
                    Len(indent) + Len(KeyOpening(key))>>)

\* lines 1195-1206: the parents that exist, from the i-th prefix of the key on
RECURSIVE WalkParents(_, _, _, _, _)
WalkParents(content, parts, i, parent_brace_end, depth_found) ==
    IF i >= Len(parts) - 1
    THEN [parent_brace_end |-> parent_brace_end, depth_found |-> depth_found]
    ELSE LET range == find_nested_object_range(content, SubSeq(parts, 1, i + 1))
         IN  IF IsSome(range)
             THEN WalkParents(content, parts, i + 1, Some(Unwrap(range)[2]), i + 1)
             ELSE [parent_brace_end |-> parent_brace_end, depth_found |-> depth_found]

\* lines 1212-1232: the leaf below the objects still to open, then their
\* closing braces
EntryLines(remaining, base_indent_level, indent, value) ==
    LET n == Len(remaining)
    IN  [i \in 1..n |->
            IF i = n
            THEN Repeat(indent, base_indent_level + i - 1) \o KeyOpening(remaining[i])
                     \o value \o "\""
            ELSE Repeat(indent, base_indent_level + i - 1)
                     \o "\"" \o remaining[i] \o "\": {"]
        \o [j \in 1..(n - 1) |-> Repeat(indent, base_indent_level + n - 1 - j) \o "}"]

\* as leaf_line_offset, but the cursor stays on the first inserted line
FirstInsertedLine(remaining) == 0

\* line 1243: the lines written above the leaf
leaf_line_offset(remaining) == Len(remaining) - 1

\* lines 1193-1251
NestedInsert(content, parts, value, indent) ==
    LET walked == WalkParents(content, parts, 0, None, 0)
        remaining == SubSeq(parts, walked.depth_found + 1, Len(parts))
        base_indent_level == walked.depth_found + 1
        entry == JoinLines(EntryLines(remaining, base_indent_level, indent, value))
        brace_offset == UnwrapOr(walked.parent_brace_end,
                                 UnwrapOr(RFind(content, "}"), Len(content)))
        inserted == insert_text_before_offset(content, brace_offset, entry)
        leaf_indent_level == base_indent_level + Len(remaining) - 1
    IN  IF ~IsSome(inserted) THEN None
        ELSE Some(<<Unwrap(inserted)[1],
                    Unwrap(inserted)[2] + leaf_line_offset(remaining),
                    Len(Repeat(indent, leaf_indent_level))
                        + Len(KeyOpening(remaining[Len(remaining)]))>>)

\* lines 1174-1252: the new text and the line and column of the cursor
insert_key_into_json(content, key, value) ==
    LET root == from_str(content)
        root_obj == as_object(Unwrap(root))
        members == Unwrap(root_obj)
        parts == SplitKey(key)
        indent == detect_indent_unit(content)
        is_flat == \A k \in DOMAIN members : members[k].type # "object"
    IN  IF ~IsSome(root) THEN None
        ELSE IF ~IsSome(root_obj) THEN None
        ELSE IF is_flat \/ Len(parts) = 1 THEN FlatInsert(content, key, value, indent)
        ELSE NestedInsert(content, parts, value, indent)

(* The documents the engine is applied to: locale files as editors and     *)
(* serializers write them, and a few written by hand.                      *)

Text(s) == [raw |-> "\"" \o s \o "\""]
Entry(k, v) == [k |-> k] @@ v
Nested(members) == [o |-> members]

FlatTrees ==
    { << >>,
      <<Entry("hello", Text("world"))>>,
      <<Entry("hello", Text("world")), Entry("a.b", Text("c"))>>,
      <<Entry("brace", Text("}")), Entry("count", [raw |-> "3"])>> }

NestedTrees ==
    { <<Entry("common", Nested(<<Entry("hello", Text("world"))>>))>>,
      <<Entry("common", Nested(<<Entry("hello", Text("world"))>>)),
        Entry("other", Nested(<<Entry("x", Text("y"))>>))>>,
      <<Entry("common", Nested(<<Entry("buttons", Nested(<<Entry("ok", Text("OK"))>>)),
                                 Entry("hello", Text("world"))>>))>>,
      <<Entry("other", Nested(<<Entry("common", Nested(<<Entry("x", Text("y"))>>))>>)),
        Entry("common", Nested(<<Entry("hello", Text("world"))>>))>>,
      <<Entry("title", Text("t")), Entry("common", Nested(<< >>))>> }

PrettyStyles ==
    [pretty : {TRUE}, indent : {"  ", "    ", "\t"}, newline : {"\n", "\r\n"},
     final_newline : BOOLEAN]

CompactStyles ==
    [pretty : {FALSE}, indent : {""}, newline : {"\n"}, final_newline : BOOLEAN]

RECURSIVE Concat(_)
Concat(pieces) == IF Len(pieces) = 0 THEN "" ELSE Head(pieces) \o Concat(Tail(pieces))

\* an object on several lines, one member a line, or on one line
RECURSIVE RenderObject(_, _, _)
RenderObject(members, style, level) ==
    LET value(m) == IF "o" \in DOMAIN m THEN RenderObject(m.o, style, level + 1) ELSE m.raw
        comma(i) == IF i = Len(members) THEN ""
                    ELSE IF style.pretty THEN "," ELSE ", "
        break == IF style.pretty THEN style.newline ELSE ""
        lead(l) == IF style.pretty THEN Repeat(style.indent, l) ELSE ""
        member(i) == lead(level + 1) \o "\"" \o members[i].k \o "\": "
                         \o value(members[i]) \o comma(i) \o break
    IN  IF Len(members) = 0 THEN "{}"
        ELSE "{" \o break \o Concat([i \in 1..Len(members) |-> member(i)])
                 \o lead(level) \o "}"

Document(tree, style) ==
    RenderObject(tree, style, 0) \o (IF style.final_newline THEN style.newline ELSE "")

\* the closing brace of an object on the line of its last member, a blank
\* line before the closing brace, an object with nothing in it as a value,
\* and a document of several lines without indentation
HandWritten ==
    { "{\n  \"hello\": \"world\" }",
      "{\n  \"hello\": \"world\"\n\n}\n",
      "{\n  \"common\": {\"hello\": \"world\"},\n  \"other\": {\n    \"x\": \"y\"\n  }\n}\n",
      "{\n  \"hello\": {},\n  \"count\": 3\n}",
      "{\n\"common\": {\n\"hello\": \"world\"\n}\n}\n" }

\* texts that are no JSON (a comma after the last entry, a brace missing or
\* one too many, words) and JSON values that are no objects
MalformedTexts ==
    { "{\n  \"hello\": \"world\",\n}",
      "{\n  \"hello\": \"world\"\n",
      "{\n  \"hello\": \"world\"\n}\n}",
      "{\n  \"hello\": {\n}",
      "not valid json",
      "[{\"hello\": \"world\"}]",
      "[]",
      "\"hello\"",
      "3",
      "null",
      "" }

InsertDocuments ==
    {Document(t, s) : t \in FlatTrees \cup NestedTrees, s \in PrettyStyles \cup CompactStyles}
        \cup HandWritten \cup MalformedTexts

InsertKeys ==
    {"goodbye", "hello", "common.goodbye", "common.buttons.cancel", "other.a.b", "a.b.c",
     "buttons.cancel", "pages.home.title"}

InitInsert ==
    /\ SessionInit
    /\ pout = None
    /\ pin \in [op : {"insert_key_into_json"}, content : InsertDocuments,
                key : InsertKeys]

\* lines 1061-1062: the engine is given the text read and the raw value
ApplyInsert ==
    /\ pin.op = "insert_key_into_json"
    /\ pout = None
    /\ pout' = Some(insert_key_into_json(pin.content, pin.key, RawValue(pin.key)))
    /\ UNCHANGED <<sessionVars, pin>>

NextInsert == ApplyInsert

SpecInsert == InitInsert /\ [][NextInsert]_vars

\* the engine has run on the input
Inserted == pin.op = "insert_key_into_json" /\ IsSome(pout)

Insertion == Unwrap(pout)

\* the parsed input, for the documents that are JSON objects
IsObjectDocument(content) ==
    IsSome(from_str(content)) /\ IsSome(as_object(Unwrap(from_str(content))))

Members(content) == Unwrap(as_object(Unwrap(from_str(content))))

FlatStyle(content) ==
    /\ IsObjectDocument(content)
    /\ \A k \in DOMAIN Members(content) : Members(content)[k].type # "object"

SingleSegment(key) == Len(SplitKey(key)) = 1

Contains(s, pattern) == IsSome(FindFrom(s, pattern, 0))

\* the lines `new` are the lines `old` with one line more at index `at`,
\* and at most commas appended to the lines before it
OneLineAdded(old, new, at) ==
    /\ Len(new) = Len(old) + 1
    /\ at \in 1..Len(new)
    /\ \A i \in 1..(at - 1) : new[i] \in {old[i], old[i] \o ","}
    /\ \A i \in at..Len(old) : new[i + 1] = old[i]

FlatCase ==
    /\ Inserted
    /\ FlatStyle(pin.content)
    /\ SingleSegment(pin.key)
    /\ pin.key \notin DOMAIN Members(pin.content)

\* C19: for a flat document and a new key of one segment, the engine adds
\* exactly one line, which contains "<key>": "<value>", and the text of the
\* cursor line before the cursor column ends with "<key>": "
C19_FlatInsertLineAndCursor ==
    FlatCase =>
        /\ IsSome(Insertion)
        /\ LET new == Lines(Unwrap(Insertion)[1])
               cursor_line == Unwrap(Insertion)[2]
               cursor_col == Unwrap(Insertion)[3]
           IN  /\ OneLineAdded(Lines(pin.content), new, cursor_line + 1)
               /\ Contains(new[cursor_line + 1],
                           "\"" \o pin.key \o "\": \"" \o RawValue(pin.key) \o "\"")
               /\ cursor_col <= Len(new[cursor_line + 1])
               /\ EndsWith(SliceTo(new[cursor_line + 1], cursor_col),
                           "\"" \o pin.key \o "\": \"")

\* a new key goes into a flat document of several lines whose last entry
\* had no comma yet
C19_Witness ==
    /\ FlatCase
    /\ pin.content = "{\n  \"hello\": \"world\"\n}\n"
    /\ pin.key = "goodbye"
    /\ Insertion = Some(<<"{\n  \"hello\": \"world\",\n  \"goodbye\": \"_goodbye_\"\n}\n",
                          2, 14>>)

\* the keys of the objects open at an offset of a text, from the outermost
\* one in ("$" stands for the root object).  One character of the scan:
\* `cur` is the string being read, `last` the string read last; braces inside
\* strings do not count, and a closing brace with no object open ends it
EnclosingStep(st, ch) ==
    IF IsSome(st.cur)
    THEN IF st.escape THEN [st EXCEPT !.cur = Some(Unwrap(@) \o ch), !.escape = FALSE]
         ELSE IF ch = "\\" THEN [st EXCEPT !.escape = TRUE]
         ELSE IF ch = "\"" THEN [st EXCEPT !.cur = None, !.last = Unwrap(st.cur)]
         ELSE [st EXCEPT !.cur = Some(Unwrap(@) \o ch)]
    ELSE IF ch = "\"" THEN [st EXCEPT !.cur = Some("")]
    ELSE IF ch = "{" THEN [st EXCEPT !.path = Append(@, st.last), !.last = ""]
    ELSE IF ch = "}"
    THEN IF Len(st.path) = 0 THEN [st EXCEPT !.unbalanced = TRUE]
         ELSE [st EXCEPT !.path = SubSeq(@, 1, Len(@) - 1), !.last = ""]
    ELSE st

RECURSIVE EnclosingScan(_, _, _, _)
EnclosingScan(text, at, end, st) ==
    IF at >= end \/ st.unbalanced THEN st
    ELSE EnclosingScan(text, at + 1, end, EnclosingStep(st, CharAt(text, at)))

RECURSIVE Enclosing(_, _, _, _)
Enclosing(text, at, target, st) ==
    IF at >= target \/ st.unbalanced THEN st.path
    ELSE Enclosing(text, at + 16, target,
                   EnclosingScan(text, at, IF at + 16 < target THEN at + 16 ELSE target, st))

EnclosingObjects(text, target) ==
    Enclosing(text, 0, target,
              [path |-> << >>, last |-> "$", cur |-> None, escape |-> FALSE,
               unbalanced |-> FALSE])

\* the chain of keys names objects nested in one another
RECURSIVE MatchesChain(_, _)
MatchesChain(members, chain) ==
    \/ Len(chain) = 0
    \/ /\ Head(chain) \in DOMAIN members
       /\ members[Head(chain)].type = "object"
       /\ MatchesChain(members[Head(chain)].members, Tail(chain))

ParentChain(key) == SubSeq(SplitKey(key), 1, Len(SplitKey(key)) - 1)

LeafPart(key) == SplitKey(key)[Len(SplitKey(key))]

NestedCase ==
    /\ Inserted
    /\ IsObjectDocument(pin.content)
    /\ ~FlatStyle(pin.content)
    /\ ~SingleSegment(pin.key)
    /\ MatchesChain(Members(pin.content), ParentChain(pin.key))

\* C20: for a nested document and a dotted key whose prefix names a chain
\* of nested objects, the leaf entry lies between the braces of the deepest
\* of these objects, and of no other object inside it
C20_LeafInsideDeepestMatch ==
    NestedCase =>
        /\ IsSome(Insertion)
        /\ LET new_content == Unwrap(Insertion)[1]
               entry == FindFrom(new_content,
                                 "\"" \o LeafPart(pin.key) \o "\": \""
                                     \o RawValue(pin.key) \o "\"", 0)
           IN  /\ IsSome(entry)
               /\ EnclosingObjects(new_content, Unwrap(entry))
                      = <<"$">> \o ParentChain(pin.key)

\* no prefix of the key names an object of the document: its first segment
\* is no member of the root, or a member that is no object
NoNestedPrefix(content, key) ==
    LET first == Head(SplitKey(key))
    IN  first \notin DOMAIN Members(content) \/ Members(content)[first].type # "object"

\* the lines the engine writes for a key none of whose parents exist: one
\* opening line a segment but the last, each one indent unit deeper than the
\* one before, the leaf, and the closing braces from the innermost out
WholeChainLines(parts, indent, value) ==
    LET n == Len(parts)
    IN  [i \in 1..(2 * n - 1) |->
            IF i < n THEN Repeat(indent, i) \o "\"" \o parts[i] \o "\": {"
            ELSE IF i = n
            THEN Repeat(indent, n) \o "\"" \o parts[n] \o "\": \"" \o value \o "\""
            ELSE Repeat(indent, 2 * n - i) \o "}"]

UnparentedCase ==
    /\ Inserted
    /\ IsObjectDocument(pin.content)
    /\ ~FlatStyle(pin.content)
    /\ ~SingleSegment(pin.key)
    /\ NoNestedPrefix(pin.content, pin.key)

\* C21: for a nested document and a dotted key whose first segment names no
\* object of the document, the engine writes segments - 1 opening lines
\* "<segment>": {, each one indent level deeper than the one before, then the
\* leaf, then as many closing braces in reverse order, and nothing else
C21_CreatesAllIntermediateObjects ==
    UnparentedCase =>
        /\ IsSome(Insertion)
        /\ LET parts == SplitKey(pin.key)
               new == Lines(Unwrap(Insertion)[1])
               first == Unwrap(Insertion)[2] + 1 - (Len(parts) - 1)
               written == WholeChainLines(parts, detect_indent_unit(pin.content),
                                          RawValue(pin.key))
           IN  /\ first >= 1
               /\ Len(new) = Len(Lines(pin.content)) + Len(written)
               /\ SubSeq(new, first, first + Len(written) - 1) = written

\* the entry "<key>": "<value>" as the engine writes it
EntryText(key, value) == "\"" \o key \o "\": \"" \o value \o "\""

FlatDottedCase ==
    /\ Inserted
    /\ FlatStyle(pin.content)
    /\ ~SingleSegment(pin.key)

\* C22: in a flat document a dotted key is written as one entry
\* "<dotted-key>": "<value>" on one new line, the only line added, and the
\* entry is a member of the root object: it lies between the braces of the
\* root and of no other object
C22_FlatDottedKeyIsLiteralTopLevel ==
    FlatDottedCase =>
        /\ IsSome(Insertion)
        /\ LET new_content == Unwrap(Insertion)[1]
               cursor_line == Unwrap(Insertion)[2]
               entry == FindFrom(new_content, EntryText(pin.key, RawValue(pin.key)), 0)
           IN  /\ OneLineAdded(Lines(pin.content), Lines(new_content), cursor_line + 1)
               /\ trim(Lines(new_content)[cursor_line + 1])
                      = EntryText(pin.key, RawValue(pin.key))
               /\ IsSome(entry)
               /\ EnclosingObjects(new_content, Unwrap(entry)) = <<"$">>

\* the lines of a text with their terminators: the pieces that end with a
\* line feed, and the rest after the last line feed
RECURSIVE RawLines(_)
RawLines(s) ==
    IF s = "" THEN << >>
    ELSE LET nl == FindFrom(s, "\n", 0)
         IN  IF IsSome(nl)
             THEN <<SliceTo(s, Unwrap(nl) + 1)>> \o RawLines(SliceFrom(s, Unwrap(nl) + 1))
             ELSE <<s>>

\* a line with its terminator, a comma put after the last byte of the line
CommaAppended(raw) ==
    LET terminator == IF EndsWith(raw, "\r\n") THEN "\r\n"
                      ELSE IF EndsWith(raw, "\n") THEN "\n"
                      ELSE ""
    IN  SliceTo(raw, Len(raw) - Len(terminator)) \o "," \o terminator

NeedsComma(raw) ==
    /\ ~EndsWith(trim(raw), ",")
    /\ ~EndsWith(trim(raw), "{")
    /\ ~EndsWith(trim(raw), "[")

\* the output is the input with lines put in before line `at`: the lines
\* from `at` on are the bytes they were, and so are the lines before it but
\* for the nearest one that is not blank, which has one comma more if it
\* ended in none of `,`, `{` and `[`
PassedThrough(old, new, at) ==
    LET added == Len(new) - Len(old)
        before == {i \in 1..(at - 1) : trim(old[i]) # ""}
        nearest == CHOOSE i \in before : \A j \in before : j <= i
    IN  /\ added >= 1
        /\ \A i \in at..Len(old) : new[i + added] = old[i]
        /\ \A i \in 1..(at - 1) :
               new[i] = IF before # {} /\ i = nearest /\ NeedsComma(old[i])
                        THEN CommaAppended(old[i])
                        ELSE old[i]

\* C23: the output of an insertion is the input, byte for byte and in the
\* same order, with the generated lines put in at one place and exactly one
\* comma appended to the nearest non-blank line before that place when it
\* ends in none of `,`, `{` and `[`
C23_CommaRepairAndPassThrough ==
    (Inserted /\ IsSome(Insertion)) =>
        \E at \in 1..Len(RawLines(pin.content)) :
            PassedThrough(RawLines(pin.content), RawLines(Unwrap(Insertion)[1]), at)

\* C24: for a text that is no JSON, or whose root is no object, the engine
\* returns no result, whatever the key
C24_MalformedInputNoResult ==
    (Inserted /\ pin.content \in MalformedTexts) => Insertion = None

\* the engine has refused a text with a comma after its last entry, a text
\* with a closing brace too many, and an array that holds an object
C24_Witness ==
    /\ Inserted
    /\ pin.content \in {"{\n  \"hello\": \"world\",\n}",
                        "{\n  \"hello\": \"world\"\n}\n}",
                        "[{\"hello\": \"world\"}]"}
    /\ Insertion = None

\* C25: for every insertion that succeeds, the indent unit detected in the
\* output is the indent unit detected in the input
C25_IndentUnitStable ==
    (Inserted /\ IsSome(Insertion)) =>
        detect_indent_unit(Unwrap(Insertion)[1]) = detect_indent_unit(pin.content)

----------------------------------------------------------------------------
(* The document cache under did_open, did_change and did_close of one URI. *)

CachedAtStart == [u \in {SrcUriA} |-> [content |-> TextTwo, version |-> 2]]

InitCache == SessionLoaded(CachedAtStart)

NextCache ==
    \E h \in Workers :
        \/ StartDidOpen(h, {SrcUriA}, SessionTexts, {1, 3})
        \/ StartDidChange(h, {SrcUriA}, ChangeLists, {1, 3})
        \/ StartDidClose(h, {SrcUriA})
        \/ DocumentStep(h)
        \/ DiagnoseStep(h)

SpecCache == InitCache /\ [][NextCache]_vars

\* handler h takes the step that applies its notification to the cache
Applies(h) ==
    /\ pc[h] \in {"do_write", "dc_write", "dcl_write"}
    /\ pc'[h] # pc[h]

\* the cache after the step holds for the URI the given text and version,
\* and for every other URI what it held
Holds(uri, content, version) ==
    /\ DOMAIN documents' = DOMAIN documents \cup {uri}
    /\ documents'[uri] = [content |-> content, version |-> version]
    /\ \A u \in DOMAIN documents \ {uri} : documents'[u] = documents[u]

HoldsNothing(uri) ==
    /\ DOMAIN documents' = DOMAIN documents \ {uri}
    /\ \A u \in DOMAIN documents' : documents'[u] = documents[u]

\* what the notification of handler h does to the cache when it is applied
Applied(h) ==
    IF req[h].kind = "did_open"
    THEN Holds(req[h].uri, req[h].text, req[h].version)
    ELSE IF req[h].kind = "did_close"
    THEN HoldsNothing(req[h].uri)
    ELSE IF Len(req[h].changes) > 0
    THEN Holds(req[h].uri, req[h].changes[Len(req[h].changes)], req[h].version)
    ELSE /\ documents' = documents
         /\ pc'[h] = "done"
         /\ out'[h] = << >>

\* C26: the cache changes only when a did_open, did_change or did_close is
\* applied, and then holds for the URI the text and version of that
\* notification (of the last entry of the change list for a change), whatever
\* the version cached before, or nothing after a close; a change with an
\* empty list leaves the cache as it is and ends without publishing
C26_CacheHoldsLastApplied ==
    [][/\ \A h \in Workers : Applies(h) => Applied(h)
       /\ (\A h \in Workers : ~Applies(h)) => documents' = documents]_vars

\* a change with version 1 and two entries has replaced the entry of version
\* 2 by the text of its last entry, with no open or close in the session
C26_Witness ==
    /\ \E h \in Workers :
           /\ req[h].kind = "did_change"
           /\ req[h].changes = <<TextOne, TextTwo>>
           /\ req[h].version = 1
           /\ pc[h] = "done"
    /\ \A h \in Workers : req[h].kind \in {"did_change", "none"}
    /\ documents = [u \in {SrcUriA} |-> [content |-> TextTwo, version |-> 1]]

----------------------------------------------------------------------------
(* The query handlers next to changes and a close of the open document.    *)

\* code_action, lines 958-1002: no lock is taken and nothing is awaited
CodeAction(h, lists) ==
    /\ pc[h] = "idle"
    /\ \E d \in lists :
           /\ req' = [req EXCEPT ![h] = [kind |-> "code_action", diagnostics |-> d]]
           /\ SetLoc(h, [loc[h] EXCEPT !.result = code_action(d)])
    /\ Goto(h, "done")
    /\ UNCHANGED <<Shared, Locks, out, init_seen, pin, pout>>

ActionRequests == UNION {[1..n -> ClientDiagnostics] : n \in 0..1}

InitQueries == SessionLoaded(OneOpenDocument)

NextQueries ==
    \E h \in Workers :
        \/ StartHover(h, DocUris, QueryPositions)
        \/ StartCompletion(h, DocUris, QueryPositions)
        \/ StartGotoDefinition(h, DocUris, QueryPositions)
        \/ StartInlayHint(h, DocUris, QueryRanges)
        \/ CodeAction(h, ActionRequests)
        \/ QueryStep(h)
        \/ StartDidChange(h, {SrcUriA}, {<<TextOne>>}, {2})
        \/ DidChangeWrite(h) \/ DidChangeDiagnose(h) \/ DiagnoseStep(h)
        \/ StartDidClose(h, {SrcUriA})
        \/ DidCloseWrite(h) \/ DidCloseReturn(h)

SpecQueries == InitQueries /\ [][NextQueries]_vars

QueryKinds == {"hover", "completion", "goto_definition", "inlay_hint", "code_action"}

\* handler h takes a step
Moves(h) == pc'[h] # pc[h]

\* C27: a hover, completion, goto_definition, inlay_hint or code_action
\* handler never holds a write guard, and no step of such a handler changes
\* the config, the catalog, the key finder, the workspace root, the document
\* cache or the capability flags
C27_QueriesAreReadOnly ==
    /\ [](\A h \in Workers : req[h].kind \in QueryKinds => wheld[h] = {})
    /\ [][\A h \in Workers :
              (req'[h].kind \in QueryKinds /\ Moves(h)) =>
                  /\ <<config, translation_store, key_finder, workspace_root,
                       documents, caps>>'
                         = <<config, translation_store, key_finder, workspace_root,
                             documents, caps>>
                  /\ wheld' = wheld]_vars

\* two query handlers of different kinds hold read guards on the document
\* cache and on the key finder at the same time
C27_Witness ==
    \E g, h \in Workers :
        /\ req[g].kind = "hover"
        /\ req[h].kind = "inlay_hint"
        /\ {"documents", "key_finder"} \subseteq rheld[g] \cap rheld[h]

CacheQueryKinds == {"hover", "completion", "goto_definition", "inlay_hint"}

\* where a query handler looks its URI up in the cache
LookupPcs == {"hv_documents", "cp_documents", "gd_documents", "ih_documents"}

\* C28: a hover, completion, goto_definition or inlay_hint handler whose URI
\* is not in the cache when it looks it up ends with an absent result; one
\* that goes on takes the content cached at that moment, and works on that
\* text until it returns
C28_QueriesAnswerFromCache ==
    [][\A h \in Workers :
           /\ (pc[h] \in LookupPcs /\ Moves(h)) =>
                  IF req[h].uri \in DOMAIN documents
                  THEN \/ loc'[h].content = documents[req[h].uri].content
                       \/ pc'[h] = "done" /\ loc'[h].result = None
                  ELSE pc'[h] = "done" /\ loc'[h].result = None
           /\ (req[h].kind \in CacheQueryKinds /\ pc[h] \notin LookupPcs \cup {"idle"}) =>
                  loc'[h].content = loc[h].content]_vars

\* a hover for a URI that is not open has ended with no result, and an
\* inlay_hint for the open document works on the cached text
C28_Witness ==
    \E g, h \in Workers :
        /\ req[g].kind = "hover" /\ req[g].uri = SrcUriB
        /\ pc[g] = "done" /\ loc[g].result = None
        /\ req[h].kind = "inlay_hint" /\ req[h].uri = SrcUriA
        /\ pc[h] = "ih_key_finder"
        /\ loc[h].content = documents[SrcUriA].content

----------------------------------------------------------------------------
(* build_file_watchers applied on its own to lists of locale paths.        *)

\* locale paths a configuration can name: directories, with and without
\* trailing separators, files, a path that is another path's pattern, and
\* paths that trim to nothing
WatchPaths ==
    {"lang", "lang/", "lang//", "lang\\", "locales", "/", "",
     "lang/en.json", "lang/en.json/", "lang/EN.JSON", "i18n/fr.Yml",
     "lang/**/*.json", "app.arb", "lang/messages.php"}

MaxLocalePaths == 2

WatchInputs ==
    [locale_paths : UNION {[1..n -> WatchPaths] : n \in 0..MaxLocalePaths},
     workspace_root : {None, Some(WorkspaceRoot)},
     relative : BOOLEAN]

InitWatch ==
    /\ SessionInit
    /\ pout = None
    /\ pin \in WatchInputs

ApplyWatch ==
    /\ pout = None
    /\ pout' = Some(build_file_watchers(pin.locale_paths, pin.workspace_root,
                                        pin.relative))
    /\ UNCHANGED <<sessionVars, pin>>

NextWatch == ApplyWatch

SpecWatch == InitWatch /\ [][NextWatch]_vars

\* the watchers returned
Watchers == Unwrap(pout)

\* what one locale path contributes, with the extension test given
Contribution(locale_path, EndsInOne(_)) ==
    LET path == TrimEndSlashes(locale_path)
    IN  IF path = "" THEN {}
        ELSE IF EndsInOne(path) THEN {path}
        ELSE {path \o "/**/*" \o ext : ext \in {".json", ".yaml", ".yml", ".php", ".arb"}}

Contributions(EndsInOne(_)) ==
    UNION {Contribution(pin.locale_paths[i], EndsInOne) : i \in 1..Len(pin.locale_paths)}

\* the place of a pattern among the distinct patterns in sorted order
Place(pattern, patterns) == 1 + Cardinality({q \in patterns : StrLess(q, pattern)})

\* one watcher per distinct pattern, each at its place in sorted order
OneWatcherPerPattern(patterns) ==
    /\ Len(Watchers) = Cardinality(patterns)
    /\ \A p \in patterns :
           Watchers[Place(p, patterns)] =
               FileSystemWatcher(p, pin.workspace_root, pin.relative)

EndsInExtension(path) ==
    \E ext \in {".json", ".yaml", ".yml", ".php", ".arb"} : EndsWith(path, ext)

EndsInExtensionAnyCase(path) == EndsInExtension(to_ascii_lowercase(path))

\* C29 as stated: the watchers are one per distinct pattern, sorted, where
\* a trimmed non-empty locale path that ends in .json .yaml .yml .php or
\* .arb contributes itself and any other contributes its five globs
C29_Original ==
    IsSome(pout) => OneWatcherPerPattern(Contributions(EndsInExtension))

\* C29: the watchers are one per distinct pattern, sorted and without
\* duplicates, where a locale path, trimmed of trailing / and \ and skipped
\* when empty, contributes itself verbatim if it ends in .json .yaml .yml
\* .php or .arb in any letter case, and otherwise its five globs
\* <path>/**/*<ext>
C29_WatchPatterns ==
    IsSome(pout) => OneWatcherPerPattern(Contributions(EndsInExtensionAnyCase))

\* a list with a directory and an upper-case file has been turned into six
\* watchers
C29_Witness ==
    /\ IsSome(pout)
    /\ Len(pin.locale_paths) = 2
    /\ pin.locale_paths[1] = "lang/EN.JSON"
    /\ pin.locale_paths[2] = "lang/"
    /\ Len(Watchers) = 6

----------------------------------------------------------------------------
(* extract_completion_prefix applied on its own to a line and the          *)
(* character of the position the client sends, which counts UTF-16 units   *)
(* (no position encoding is negotiated at initialize).                     *)

\* lines under the cursor: open and closed calls of each pattern, quotes of
\* both kinds, text with no call, and text with a two-byte character
CompletionLines ==
    {"", "foo", "t(\"", "t(\"com", "t('com", "$t(\"a", "$t('a.b", "i18n.t(\"a",
     "i18n.t('a", "t(\"a\")", "t('a') t(\"b", "t(\"a\") t('", "t(\"it's",
     "x = \"s\"; t(\"k", "t(\"a\", \"b", "t(\"a', t('b", "at(\"x",
     "é", "é t(\"a", "é t(\"a\"", "t(\"é", "café t('ab"}

\* how far past the end of the line the character of a position may lie
PastEnd == 1

InitPrefix ==
    /\ SessionInit
    /\ pout = None
    /\ \E l \in CompletionLines : \E c \in 0..(Len(l) + PastEnd) :
           pin = [line |-> l, character |-> c]

ApplyPrefix ==
    /\ pout = None
    /\ pout' = Some(extract_completion_prefix(pin.line, pin.character))
    /\ UNCHANGED <<sessionVars, pin>>

NextPrefix == ApplyPrefix

SpecPrefix == InitPrefix /\ [][NextPrefix]_vars

\* what the call gave
Extracted == Unwrap(pout)

\* the text of the line before the cursor (every character here is one unit)
TextBeforeCursor ==
    SubSeq(pin.line, 1, IF pin.character < Len(pin.line) THEN pin.character ELSE Len(pin.line))

HasQuote(s) == ContainsChar(s, "\"") \/ ContainsChar(s, "'")

\* the texts p such that before ends with a call pattern followed by p and
\* p has no quote
OpenPrefixes(before) ==
    {SubSeq(before, j + 1, Len(before)) : j \in
        {j \in 0..Len(before) :
            /\ ~HasQuote(SubSeq(before, j + 1, Len(before)))
            /\ \E k \in 1..Len(quote_patterns) :
                   EndsWith(SubSeq(before, 1, j), quote_patterns[k])}}

\* the ends of the occurrences of the call patterns in before
PatternEnds(before) ==
    {j \in 0..Len(before) :
        \E k \in 1..Len(quote_patterns) : EndsWith(SubSeq(before, 1, j), quote_patterns[k])}

\* a quote lies between the last occurrence of a pattern and the cursor
QuoteAfterLastPattern(before) ==
    /\ PatternEnds(before) # {}
    /\ LET last == CHOOSE j \in PatternEnds(before) : \A i \in PatternEnds(before) : i <= j
       IN  HasQuote(SubSeq(before, last + 1, Len(before)))

PrefixContract(before, result) ==
    /\ \A p \in OpenPrefixes(before) : result = Some(p)
    /\ IsSome(result) => Unwrap(result) \in OpenPrefixes(before)
    /\ QuoteAfterLastPattern(before) => result = None

\* C30: extract_completion_prefix returns a prefix p exactly when the text
\* before the cursor ends with one of the six call patterns followed by p
\* and p has neither quote character; with a quote between the last pattern
\* occurrence and the cursor it returns nothing
C30_PrefixIffOpenCall ==
    IsSome(pout) => PrefixContract(TextBeforeCursor, Extracted)

\* the same on lines of one-byte characters only
PrefixContractOnAscii ==
    (IsSome(pout) /\ ByteLen(pin.line) = Len(pin.line))
        => PrefixContract(TextBeforeCursor, Extracted)

\* the contract of the function that counts characters
PrefixContractByCharacters ==
    IsSome(pout) => PrefixContract(TextBeforeCursor,
                                   PrefixByCharacters(pin.line, pin.character))

\* a call with the cursor at the end of an open call after a two-byte character
AfterTwoByteCharacter ==
    IsSome(pout) /\ pin.line = "é t(\"a" /\ pin.character = 6

----------------------------------------------------------------------------
(* The hints of inlay_hint, lines 1112-1163, applied on their own to a     *)
(* document, a requested range and a source locale.                        *)

\* call sites with each quote, and with a delimiter that is no quote to
\* line 1144
HintTokens ==
    {[fn |-> f, key |-> k, quote |-> q] :
        f \in {"t", "$t", "x"}, k \in {"hello", "bye"}, q \in {"\"", "'", "|"}}

MaxHintLines == 2

HintContents == UNION {[1..n -> HintTokens] : n \in 1..MaxHintLines}

Pos(line, character) == [line |-> line, character |-> character]

\* requested ranges: zero-width ones, ranges that end before the key, that
\* touch its start or its end, that start after it, and ranges over lines
HintRanges ==
    {[start |-> Pos(0, 0), end |-> Pos(0, 0)],
     [start |-> Pos(7, 2), end |-> Pos(7, 2)],
     [start |-> Pos(0, 0), end |-> Pos(0, 2)],
     [start |-> Pos(0, 0), end |-> Pos(0, 3)],
     [start |-> Pos(0, 6), end |-> Pos(0, 20)],
     [start |-> Pos(0, 8), end |-> Pos(0, 20)],
     [start |-> Pos(0, 9), end |-> Pos(0, 20)],
     [start |-> Pos(0, 20), end |-> Pos(1, 2)],
     [start |-> Pos(0, 20), end |-> Pos(1, 3)],
     [start |-> Pos(1, 0), end |-> Pos(1, 30)],
     [start |-> Pos(0, 0), end |-> Pos(2, 0)]}

\* a catalog whose locale en holds both keys and whose locale fr holds one
HintStore ==
    [root |-> WorkspaceRoot,
     tr   |-> [l \in {"en", "fr"} |->
                  IF l = "en" THEN [k \in {"hello", "bye"} |-> "Hi"]
                  ELSE [k \in {"hello"} |-> "_hello_"]]]

HintFinder == KeyFinderNew({"t", "$t"})

InitHints ==
    /\ SessionInit
    /\ pout = None
    /\ pin \in [content : HintContents, range : HintRanges,
                source_locale : {"en", "fr"}]

ApplyHints ==
    /\ pout = None
    /\ pout' = Some(InlayHints(HintStore, pin.source_locale, pin.content, pin.range,
                               find_keys(HintFinder, pin.content)))
    /\ UNCHANGED <<sessionVars, pin>>

NextHints == ApplyHints

SpecHints == InitHints /\ [][NextHints]_vars

Hints == Unwrap(pout)

\* a <= b, line first and then character
Leq(a, b) == a.line < b.line \/ (a.line = b.line /\ a.character <= b.character)

\* the usage has a source-locale value and the request is zero-width or
\* overlaps the usage
HintDue(usage) ==
    /\ pin.source_locale \in DOMAIN HintStore.tr
    /\ usage.key \in DOMAIN HintStore.tr[pin.source_locale]
    /\ \/ pin.range.start = pin.range.end
       \/ /\ Leq(pin.range.start, Pos(usage.line, usage.end_char))
          /\ Leq(Pos(usage.line, usage.start_char), pin.range.end)

\* the end character of the usage, plus one when a quote stands there
HintPlace(usage) ==
    LET at == CharAt(LineText(pin.content[usage.line + 1]), usage.end_char)
    IN  Pos(usage.line, usage.end_char + (IF at = "'" \/ at = "\"" THEN 1 ELSE 0))

DueUsages == SelectSeq(find_keys(HintFinder, pin.content), HintDue)

\* C31: inlay_hint emits a hint for a found usage iff the usage has a
\* source-locale value and the requested range is zero-width or
\* request.start <= usage.end and usage.start <= request.end, line first;
\* the hint stands at the usage's end character, plus one when the
\* character there is a single or double quote
C31_HintIffValueAndOverlap ==
    IsSome(pout) =>
        /\ Len(Hints) = Len(DueUsages)
        /\ \A j \in 1..Len(DueUsages) : Hints[j].position = HintPlace(DueUsages[j])

\* a request that ends exactly where a usage starts got the hint of that
\* usage and not the one of the next line, placed past a single quote
C31_Witness ==
    /\ IsSome(pout)
    /\ Len(pin.content) = 2
    /\ pin.content[1] = [fn |-> "t", key |-> "hello", quote |-> "'"]
    /\ pin.content[2].fn = "t"
    /\ pin.range = [start |-> Pos(0, 0), end |-> Pos(0, 3)]
    /\ pin.source_locale = "en"
    /\ Hints = <<[position |-> Pos(0, 9), label |-> "= Hi"]>>

----------------------------------------------------------------------------
(* The cursor of a nested insertion, lines 1238-1250.                      *)

\* the nested branch of line 1193 was taken and gave a result
NestedSuccess ==
    /\ Inserted
    /\ IsSome(Insertion)
    /\ IsObjectDocument(pin.content)
    /\ ~FlatStyle(pin.content)
    /\ ~SingleSegment(pin.key)

\* the lines `new` are the lines `old` with `count` lines more from index
\* `first` on, and at most a comma appended to the line before them
LinesAdded(old, new, first, count) ==
    /\ Len(new) = Len(old) + count
    /\ first \in 1..(Len(old) + 1)
    /\ \A i \in 1..(first - 1) : new[i] \in {old[i], old[i] \o ","}
    /\ \A i \in first..Len(old) : new[i + count] = old[i]

\* C32: in the nested case the cursor line is the first inserted line plus
\* the number of objects written above the leaf, that line holds the leaf
\* entry, and its text before the cursor column ends with "<leaf-segment>": "
C32_NestedCursorOnLeaf ==
    NestedSuccess =>
        LET old == Lines(pin.content)
            new == Lines(Unwrap(Insertion)[1])
            cursor_line == Unwrap(Insertion)[2]
            cursor_col == Unwrap(Insertion)[3]
            count == Len(new) - Len(old)
            opened == (count - 1) \div 2
            first == cursor_line + 1 - opened
        IN  /\ count >= 1
            /\ count = 2 * opened + 1
            /\ LinesAdded(old, new, first, count)
            /\ \A i \in first..(first + opened - 1) : EndsWith(new[i], "\": {")
            /\ trim(new[cursor_line + 1])
                   = EntryText(LeafPart(pin.key), RawValue(pin.key))
            /\ cursor_col <= Len(new[cursor_line + 1])
            /\ EndsWith(SliceTo(new[cursor_line + 1], cursor_col),
                        "\"" \o LeafPart(pin.key) \o "\": \"")

\* a key of three segments with one parent in the document has been
\* inserted: one object opened above the leaf, the cursor on the line after
C32_Witness ==
    /\ NestedSuccess
    /\ pin.key = "common.buttons.cancel"
    /\ Len(Lines(Unwrap(Insertion)[1])) = Len(Lines(pin.content)) + 3
    /\ EndsWith(Lines(Unwrap(Insertion)[1])[Unwrap(Insertion)[2]], "\"buttons\": {")

----------------------------------------------------------------------------
(* find_key_object_range applied on its own, as find_nested_object_range   *)
(* calls it: from the start of the text or from inside an object found.    *)

\* objects on one line and on several, braces and escaped quotes and
\* backslashes inside strings, values that are no objects, white space
\* around the colon, and texts that stop before the object is closed
TrackerTexts ==
    { "{\"common\": {\"hello\": \"world\"}}",
      "{\n  \"common\": {\n    \"hello\": \"world\"\n  }\n}",
      "{\"common\": {\"a\": \"}\", \"b\": \"{\"}, \"z\": 1}",
      "{\"common\": {\"a\": \"say \\\"}\\\" now\"}, \"z\": {}}",
      "{\"common\": {\"a\": \"back\\\\\"}, \"hello\": \"}\"}",
      "{\"common\": {\"a\": \"{\\\\\\\"\", \"buttons\": {\"ok\": \"}}\"}}, \"z\": 2}",
      "{\"common\" : \n {\n}}",
      "{\"common\": {}}",
      "{\"hello\": \"world\", \"common\": [1]}",
      "{\"hello\": 3, \"z\": {\"a\": true}}",
      "{\"common\": {\"hello\": \"world\"",
      "{\"common\": {\"a\": \"\\\"}",
      "{\"common\": {\"buttons\": {\"a\": \"}\"}",
      "{\"common\"" }

TrackerDocuments ==
    TrackerTexts \cup {Document(t, s) : t \in NestedTrees, s \in PrettyStyles \cup CompactStyles}

TrackerKeys == {"common", "buttons", "hello", "missing", "z", "a"}

\* line 1290: a search starts at 0 or just inside an object found before
SearchStarts(content) ==
    {0} \cup {Unwrap(find_nested_object_range(content, <<k>>))[1] + 1 :
                 k \in {k \in TrackerKeys :
                           IsSome(find_nested_object_range(content, <<k>>))}}

InitRange ==
    /\ SessionInit
    /\ pout = None
    /\ \E c \in TrackerDocuments : \E from \in SearchStarts(c) : \E k \in TrackerKeys :
           pin = [op |-> "find_key_object_range", content |-> c, search_from |-> from,
                  key_name |-> k]

ApplyRange ==
    /\ pout = None
    /\ pout' = Some(find_key_object_range(pin.content, pin.search_from, pin.key_name))
    /\ UNCHANGED <<sessionVars, pin>>

NextRange == ApplyRange

SpecRange == InitRange /\ [][NextRange]_vars

Range == Unwrap(pout)

\* where the value of the first "key_name" from search_from starts: after
\* the key, white space, a colon and white space
ValueStart ==
    LET needle == "\"" \o pin.key_name \o "\""
        key == FindFrom(pin.content, needle, pin.search_from)
        colon == SkipWhitespace(pin.content, Unwrap(key) + Len(needle))
    IN  IF IsSome(key) /\ CharAt(pin.content, colon) = ":"
        THEN Some(SkipWhitespace(pin.content, colon + 1))
        ELSE None

ValueIsObject == IsSome(ValueStart) /\ CharAt(pin.content, Unwrap(ValueStart)) = "{"

\* the value read as JSON from its first character on
ValueRead == ParseValue(pin.content, Unwrap(ValueStart))

\* C33: the brace tracker returns the offset of the closing brace that
\* matches the opening brace of the key's object, whatever braces, escaped
\* quotes and backslashes its strings hold, and find_key_object_range
\* returns nothing when the object is never closed or the value is no object
C33_TrackerFindsMatchingBrace ==
    IsSome(pout) =>
        IF ValueIsObject /\ ValueRead.ok
        THEN Range = Some(<<Unwrap(ValueStart), ValueRead.next - 1>>)
        ELSE Range = None

\* the object of a key was found whose string holds an escaped quote
\* followed by a closing brace
C33_Witness ==
    /\ IsSome(pout)
    /\ pin.content = "{\"common\": {\"a\": \"say \\\"}\\\" now\"}, \"z\": {}}"
    /\ pin.key_name = "common"
    /\ Range = Some(<<11, 32>>)

----------------------------------------------------------------------------
(* The end of the text after an insertion, lines 1364 and 1398-1401.       *)

EndsWithNewline(text) == Len(text) > 0 /\ CharAt(text, Len(text) - 1) = "\n"

\* C34: for every successful insertion the output ends with a newline iff
\* the input ends with a newline
C34_TrailingNewlinePreserved ==
    (Inserted /\ IsSome(Insertion)) =>
        (EndsWithNewline(Unwrap(Insertion)[1]) <=> EndsWithNewline(pin.content))

\* a key went into a document of several lines that ends with its closing
\* brace, and the output ends with that brace
C34_Witness ==
    /\ Inserted
    /\ IsSome(Insertion)
    /\ Len(Lines(pin.content)) > 1
    /\ ~EndsWithNewline(pin.content)
    /\ EndsWith(Unwrap(Insertion)[1], "}")

----------------------------------------------------------------------------
(* The parsed view of an insertion: the tree of the output against the     *)
(* tree of the input.                                                      *)

\* the key path is free in the members: some segment but the last is missing
\* or the last is, and every segment before the missing one names an object
RECURSIVE PathFree(_, _)
PathFree(members, parts) ==
    IF Head(parts) \notin DOMAIN members THEN TRUE
    ELSE /\ Len(parts) > 1
         /\ members[Head(parts)].type = "object"
         /\ PathFree(members[Head(parts)].members, Tail(parts))

\* the members with the key path mapped to the value
RECURSIVE WithPath(_, _, _)
WithPath(members, parts, value) ==
    LET below == IF Head(parts) \in DOMAIN members
                 THEN members[Head(parts)].members ELSE << >>
        put == IF Len(parts) = 1 THEN JString(value)
               ELSE JObject(WithPath(below, Tail(parts), value))
    IN  [k \in DOMAIN members \cup {Head(parts)} |->
            IF k = Head(parts) THEN put ELSE members[k]]

\* the path the engine is to write: the whole key as one name in the flat
\* case, its segments in the nested case
KeyPath(content, key) ==
    IF FlatStyle(content) \/ SingleSegment(key) THEN <<key>> ELSE SplitKey(key)

NewKeyCase ==
    /\ Inserted
    /\ IsSome(Insertion)
    /\ IsObjectDocument(pin.content)
    /\ PathFree(Members(pin.content), KeyPath(pin.content, pin.key))

\* C35: for a well-formed object document and a key not present in it, the
\* output of a successful insertion is a well-formed JSON object whose tree
\* is the tree of the input plus the key path mapped to the value
C35_OutputIsInputPlusKey ==
    NewKeyCase =>
        /\ IsObjectDocument(Unwrap(Insertion)[1])
        /\ Members(Unwrap(Insertion)[1])
               = WithPath(Members(pin.content), KeyPath(pin.content, pin.key),
                          RawValue(pin.key))

----------------------------------------------------------------------------
(* Locks between concurrent handlers: one document is open, task 0 serves  *)
(* initialize and initialized, and every worker serves one request.  The   *)
(* tasks are polled by the runtime whenever they can go on.                *)

InitLocks ==
    /\ config = DefaultConfig
    /\ documents = OneOpenDocument
    /\ translation_store = None
    /\ key_finder = KeyFinderNew(DefaultConfig.function_patterns)
    /\ workspace_root = None
    /\ caps = NoCaps
    /\ disk = InitialDisk
    /\ rheld = [h \in Handlers |-> {}]
    /\ wheld = [h \in Handlers |-> {}]
    /\ pc = [h \in Handlers |-> "idle"]
    /\ req = [h \in Handlers |-> NoReq]
    /\ loc = [h \in Handlers |-> NoLoc]
    /\ out = [h \in Handlers |-> << >>]
    /\ init_seen = FALSE
    /\ pin = NoPure
    /\ pout = None

LockCaps == {c \in ClientCaps : IsSome(c.workspace)}

LockPosition == [line |-> 1, character |-> 5]

LockRange == [start |-> [line |-> 1, character |-> 0],
              end |-> [line |-> 1, character |-> 9]]

LockCommand == [command |-> CreateKeyCommand, arguments |-> <<StrArg("bye")>>]

\* a notification or a command
StartLockNotification(h) ==
    \/ StartDidOpen(h, {SrcUriB}, {TextOne}, {1})
    \/ StartDidChange(h, {SrcUriA}, {<<TextOne>>}, {1})
    \/ StartDidClose(h, {SrcUriA})
    \/ StartDidSave(h, {LocaleUri})
    \/ StartDidChangeWatchedFiles(h, {<<LocaleUri>>})
    \/ StartExecuteCommand(h, {LockCommand})

\* a request about a position or a range of the open document
StartLockQuery(h) ==
    \/ StartHover(h, {SrcUriA}, {LockPosition})
    \/ StartCompletion(h, {SrcUriA}, {LockPosition})
    \/ StartGotoDefinition(h, {SrcUriA}, {LockPosition})
    \/ StartInlayHint(h, {SrcUriA}, {LockRange})

\* worker 1 serves a notification or a command, every other worker a request
\* of any kind
StartLockWorker(h) ==
    \/ StartLockNotification(h)
    \/ (h # 1 /\ StartLockQuery(h))

TaskStep(h) ==
    \/ (h = 0 /\ StartInitialize(h, LockCaps, {Some(WorkspaceRoot)}))
    \/ (h = 0 /\ InitializeStep(h))
    \/ (h = 0 /\ InitializedStep(h))
    \/ (h # 0 /\ StartLockWorker(h))
    \/ (h # 0 /\ DiagnoseStep(h))
    \/ (h # 0 /\ DocumentStep(h))
    \/ (h # 0 /\ ReloadStep(h))
    \/ (h # 0 /\ NotifyStep(h))
    \/ (h # 0 /\ CommandStep(h))
    \/ (h # 0 /\ QueryStep(h))

NextLocks == \E h \in Handlers : TaskStep(h)


\* the lock each position of a handler asks for, and how
WriteAcquires ==
    [init_inlay_dyn |-> "inlay_hint_dynamic_registration_supported",
     init_inlay_refresh |-> "inlay_hint_refresh_supported",
     init_watch_dyn |-> "watched_files_dynamic_registration_supported",
     init_watch_rel |-> "watched_files_relative_pattern_supported",
     iw_key_finder |-> "key_finder",
     iw_store |-> "translation_store",
     iw_config |-> "config",
     iw_root |-> "workspace_root",
     do_write |-> "documents",
     dc_write |-> "documents",
     dcl_write |-> "documents",
     rt_publish |-> "translation_store"]

ReadAcquires ==
    [cd_key_finder |-> "key_finder",
     cd_store |-> "translation_store",
     cd_config |-> "config",
     itu_root |-> "workspace_root",
     itu_config |-> "config",
     rt_root |-> "workspace_root",
     rt_config |-> "config",
     rih_flag |-> "inlay_hint_refresh_supported",
     ec_store |-> "translation_store",
     rd_documents |-> "documents",
     in_log |-> "inlay_hint_dynamic_registration_supported",
     hv_documents |-> "documents",
     hv_key_finder |-> "key_finder",
     ghc_store |-> "translation_store",
     ghc_config |-> "config",
     cp_documents |-> "documents",
     gc_store |-> "translation_store",
     gc_config |-> "config",
     gd_documents |-> "documents",
     gd_key_finder |-> "key_finder",
     gdl_store |-> "translation_store",
     gdl_config |-> "config",
     ih_config |-> "config",
     ih_documents |-> "documents",
     ih_key_finder |-> "key_finder",
     ih_store |-> "translation_store"]

\* with write-preferring locks h cannot go on before g has: h asks for a
\* write guard of a slot that g holds a guard of, or for a read guard of a
\* slot that g holds the write guard of or is in the queue to write
WaitsFor(h, g) ==
    \/ /\ pc[h] \in DOMAIN WriteAcquires
       /\ WriteAcquires[pc[h]] \in rheld[g] \cup wheld[g]
    \/ /\ pc[h] \in DOMAIN ReadAcquires
       /\ \/ ReadAcquires[pc[h]] \in wheld[g]
          \/ /\ g # h
             /\ pc[g] \in DOMAIN WriteAcquires
             /\ WriteAcquires[pc[g]] = ReadAcquires[pc[h]]

\* the lock that h asks for can be given to it now
Granted(h) ==
    /\ pc[h] \in DOMAIN WriteAcquires => CanWrite(WriteAcquires[pc[h]])
    /\ pc[h] \in DOMAIN ReadAcquires => CanRead(ReadAcquires[pc[h]])

\* the task has a step to take: a request to start, or the next step of its
\* handler once the lock it asks for can be given
CanGoOn(h) ==
    IF pc[h] = "idle" THEN h # 0 \/ ~init_seen
    ELSE IF pc[h] = "done" THEN h = 0 /\ req[h].kind = "initialize"
    ELSE Granted(h)

\* the runtime polls task h, which goes on
Poll(h) ==
    /\ CanGoOn(h)
    /\ \E p \in DOMAIN WriteAcquires \cup DOMAIN ReadAcquires
                \cup {"idle", "done", "polled"} :
           pc' = [pc EXCEPT ![h] = p]
    /\ pc'[h] # pc[h]

\* no set of handlers in which each one waits for another one of the set
NoWaitCycle ==
    \A S \in SUBSET Handlers :
        S # {} => \E h \in S : \A g \in S : ~WaitsFor(h, g)

\* every task that can go on is polled again and again, and a step of the
\* session that moves task h is a step of h
SpecLocks ==
    InitLocks /\ [][NextLocks]_vars /\ \A h \in Handlers : WF_pc(Poll(h))

Completed(h) == pc[h] = "done" /\ rheld[h] = {} /\ wheld[h] = {}

\* C36: handlers never wait for each other in a cycle, and every handler
\* that has started releases all its locks and completes
C36_DeadlockFree ==
    /\ []NoWaitCycle
    /\ <>[](\A h \in Handlers : Completed(h))

\* initialize waits to write the catalog that one worker holds a read guard
\* of, and the other worker waits behind it to read the catalog
C36_Witness ==
    \E h, g \in Workers :
        /\ h # g
        /\ pc[0] = "iw_store"
        /\ "translation_store" \in rheld[g]
        /\ WaitsFor(0, g)
        /\ pc[h] \in {"cd_store", "ghc_store", "gc_store", "gdl_store", "ih_store"}
        /\ WaitsFor(h, 0)
        /\ rheld[h] # {}

----------------------------------------------------------------------------
(* The diagnostics published last, under concurrent edits of one document *)

\* the diagnostics of the content that the cache holds for the URI
DiagnosticsOfCached(uri) ==
    compute_diagnostics(key_finder, translation_store, config.source_locale,
                        documents[uri].content)

\* the did_change handler h publishes, and with that every handler, each
\* one a did_change, has finished
PublishesLast(h) ==
    /\ pc[h] = "dd_publish"
    /\ pc'[h] = "done"
    /\ \A g \in Workers : req[g].kind = "did_change"
    /\ \A g \in Workers \ {h} : pc[g] = "done"

\* C37: once all handlers have finished, the diagnostics published last for
\* an open URI are those of the content cached for it: when did_change
\* handlers run concurrently, the publication that ends the last of them
\* carries the diagnostics of the cached content
C37_LastPublishedIsOfCached ==
    [][\A h \in Workers :
           PublishesLast(h) /\ loc[h].uri \in DOMAIN documents
               => loc[h].diagnostics = DiagnosticsOfCached(loc[h].uri)]_vars

----------------------------------------------------------------------------
(* Publications and the document cache *)

\* handler h makes its publish_diagnostics call
Publishes(h) == pc[h] = "dd_publish" /\ pc'[h] # pc[h]

\* C38: diagnostics are published only for a URI that the document cache
\* holds at the moment of the publication
C38_PublishedOnlyForCached ==
    [][\A h \in Workers : Publishes(h) => loc[h].uri \in DOMAIN documents]_vars

----------------------------------------------------------------------------
(* A reload next to a create-key command: worker 1 serves the command for  *)
(* the new key "bye", worker 2 the did_save or the watched-files           *)
(* notification of a locale file; nobody else writes the locale files.     *)

InitSaveCommand == SessionLoadedOn(OneOpenDocument, CommandDisk)

\* as BetweenAwaits, but a handler can be suspended anywhere
SuspendedAnywhere(h) == FALSE

\* lines 1045-1073 hold no .await: from the drop of the catalog guard to the
\* first lock of reload_translations the command handler is not suspended
BetweenAwaits(h) == pc[h] \in {"ec_read", "ec_write"}

\* the handlers of a server are futures polled one at a time: h is polled
\* only while every other handler is suspended at an .await
Polled(h) == \A g \in Handlers \ {h} : ~BetweenAwaits(g)

NextSaveCommand ==
    \/ (Polled(1) /\ StartExecuteCommand(1, {LockCommand}))
    \/ (Polled(1) /\ CommandStep(1))
    \/ (Polled(1) /\ ReloadStep(1))
    \/ (Polled(1) /\ DiagnoseStep(1))
    \/ (Polled(2) /\ StartDidSave(2, {LocaleUri}))
    \/ (Polled(2) /\ StartDidChangeWatchedFiles(2, {<<LocaleUri>>}))
    \/ (Polled(2) /\ NotifyStep(2))
    \/ (Polled(2) /\ ReloadStep(2))

SpecSaveCommand == InitSaveCommand /\ [][NextSaveCommand]_vars

\* the catalog a scan of the locale files as they are now gives
ScanOfDisk ==
    Some(scan_and_load(Unwrap(workspace_root), config.locale_paths, disk))

----------------------------------------------------------------------------
(* Concurrent create-key commands: every worker serves one command, each   *)
(* for a key of its own, over the locale files de.yaml, en.json, fr.json.  *)

CommandKey(h) == "key" \o ToString(h)

KeyCommand(h) ==
    [command |-> CreateKeyCommand, arguments |-> <<StrArg(CommandKey(h))>>]

InitCommands == SessionLoadedOn(OneOpenDocument, CommandDisk)

NextCommands ==
    \E h \in Workers :
        /\ Polled(h)
        /\ \/ StartExecuteCommand(h, {KeyCommand(h)})
           \/ CommandStep(h) \/ ReloadStep(h) \/ DiagnoseStep(h)

SpecCommands == InitCommands /\ [][NextCommands]_vars

\* the command of handler h has written locale file l
Wrote(h, l) ==
    \E j \in 1..Len(out[h]) :
        out[h][j].call = "(file written)" /\ out[h][j].file = l

====
